---------------------------- MODULE Spec2Model ----------------------------
(***************************************************************************)
(* The length-prefixed JSON-RPC clients of the ESP8266 MCP test tools:     *)
(* SessionMCPClient (test_session_management.py) and SessionToolClient     *)
(* (test_session_tools.py), together with the peer and the TCP byte        *)
(* stream between them.                                                     *)
(*                                                                         *)
(* Bytes are numbers 0..255.  A JSON text is written in a compact form:    *)
(* '{', one byte per member, '}' (see the member bytes below); a lone      *)
(* digit is the JSON number it spells.  Everything else about the wire     *)
(* (4-byte big-endian length header, short reads, timeouts, end of         *)
(* stream) is as in the source.                                            *)
(*                                                                         *)
(* Time: the clock advances only while the client is blocked in recv       *)
(* with nothing to read; one tick is the 1.0 s receive timeout that        *)
(* SessionToolClient.send_request passes to _receive_framed_message.       *)
(*                                                                         *)
(* The integrated test runner (integrated_test_runner.py) is modelled      *)
(* beside them: the main thread in start_logging, stop_logging,            *)
(* _log_test_message and run_test_script, the thread of _monitor_serial    *)
(* with the serial device, the thread of _process_log_queue, the child     *)
(* process, and main with SIGINT.  A log entry carries, as its timestamp,  *)
(* its place in put order; the log file is "None", "open" or "closed".     *)
(*                                                                         *)
(* MCPClient (test_mcp_client.py) frames by newline instead: its           *)
(* send_request decodes each received chunk as UTF-8 and takes the text    *)
(* before the first newline.  The console of the device is modelled byte   *)
(* by byte where _monitor_serial cuts what it read into lines.             *)
(***************************************************************************)
EXTENDS Integers, Sequences, FiniteSets, TLC

\* ------------------------------------------------------------------ bounds

\* Events of the serial device (a line, a failing read) in one run.
MaxSerial == 2
\* Lines the child process writes in one run of run_test_script.
MaxLines == 2
\* Calls of run_test_script in one run.
MaxRuns == 1
\* Calls of _log_test_message in one run.
MaxMessages == 2

\* Bytes the device writes to its console in one run.
MaxConsole == 4
\* Calls of stop_logging in one run.
MaxStops == 2

\* Largest request identifier the driver allocates in one run.
MaxId == 2
\* Largest caller-supplied timeout of SessionToolClient.send_request, in ticks.
MaxTimeout == 2
\* Frames the peer can put on the wire between two ticks of the clock.
PeerBurst == 1
\* Longest payload of the free-form frames injected in the framing runs.
MaxLen == 2
\* Threads that call _get_next_id concurrently, and calls per thread.
NumThreads == 2
CallsPerThread == 2

\* ------------------------------------------------------- program constants

\* 1024 * 1024, the "1MB limit" of _receive_framed_message.
MAX_MESSAGE == 1048576
\* The 4-byte length prefix.
HEADER_LEN == 4

\* ------------------------------------------------------------------- bytes

LBRACE == 123
RBRACE == 125
\* members of an object, one byte each
B_JSONRPC == 106
B_PROGRESS == 112
B_METHOD == 109
B_RESULT == 114
B_TOOLS == 116
B_ERR_NOTFOUND == 101
B_ERR_PARAMS == 102
B_ID0 == 48
\* a byte that is not valid UTF-8 anywhere
B_BAD == 255
\* The line terminator, and a character outside ASCII (two bytes in UTF-8).
NL == 10
E_ACUTE == 233

\* None where a text (str) is expected, and the mark of a failed decode;
\* neither is a sequence of bytes.
NoneText == <<-1>>
UnicodeDecodeError == <<-2>>

Pow256(k) == IF k = 0 THEN 1 ELSE IF k = 1 THEN 256 ELSE IF k = 2 THEN 65536 ELSE 16777216

\* int.to_bytes(4, byteorder='big')
to_bytes(n) == [i \in 1..HEADER_LEN |-> (n \div Pow256(HEADER_LEN - i)) % 256]

\* The number that a sequence of at most 4 bytes spells, big end first.
RECURSIVE BigEndian(_)
BigEndian(b) ==
    IF b = <<>> THEN 0
    ELSE BigEndian(SubSeq(b, 1, Len(b) - 1)) * 256 + b[Len(b)]

\* int.from_bytes(length_data, byteorder='big'); the numbers from 2^31 on
\* (first of 4 bytes above 127) are all given as 2^31 - 1, far above any
\* length the program tells apart.
from_bytes(b) ==
    IF Len(b) >= 4 /\ b[1] > 127 THEN 2147483647 ELSE BigEndian(b)

Take(s, k) == SubSeq(s, 1, k)
Drop(s, k) == SubSeq(s, k + 1, Len(s))
Min(a, b) == IF a < b THEN a ELSE b

\* bytes.decode('utf-8'): the text (its code points), or the error raised.
\* A byte below 128 is a character; a byte of 194..223 and a continuation
\* byte (128..191) after it are one character; every other byte, and a
\* first byte whose continuation is not there, raises.
RECURSIVE utf8_decode(_)
utf8_decode(b) ==
    IF b = <<>> THEN <<>>
    ELSE IF b[1] < 128
    THEN LET rest == utf8_decode(Drop(b, 1))
         IN IF rest = UnicodeDecodeError THEN rest ELSE <<b[1]>> \o rest
    ELSE IF b[1] \in 194..223 /\ Len(b) >= 2 /\ b[2] \in 128..191
    THEN LET rest == utf8_decode(Drop(b, 2))
         IN IF rest = UnicodeDecodeError THEN rest
            ELSE <<(b[1] - 192) * 64 + (b[2] - 128)>> \o rest
    ELSE UnicodeDecodeError

\* str.encode('utf-8') of a text of characters below U+0800: one byte for
\* an ASCII character, two for the others.
RECURSIVE utf8_encode(_)
utf8_encode(s) ==
    IF s = <<>> THEN <<>>
    ELSE IF s[1] < 128 THEN <<s[1]>> \o utf8_encode(Drop(s, 1))
    ELSE <<192 + (s[1] \div 64), 128 + (s[1] % 64)>> \o utf8_encode(Drop(s, 1))

\* ------------------------------------------------------------------- JSON

IdBytes == {B_ID0 + i : i \in 1..9}
MemberBytes == {B_JSONRPC, B_PROGRESS, B_METHOD, B_RESULT, B_TOOLS, E_ACUTE,
                B_ERR_NOTFOUND, B_ERR_PARAMS}
                 \cup IdBytes

\* The key of a member byte.
KeyOf(b) ==
    IF b = B_JSONRPC THEN "jsonrpc"
    ELSE IF b \in {B_PROGRESS, B_METHOD} THEN "method"
    ELSE IF b \in {B_RESULT, B_TOOLS, E_ACUTE} THEN "result"
    ELSE IF b \in {B_ERR_NOTFOUND, B_ERR_PARAMS} THEN "error"
    ELSE "id"

\* The value of a member byte.
ValueOf(b) ==
    IF b = B_JSONRPC THEN "2.0"
    ELSE IF b = B_PROGRESS THEN "notifications/progress"
    ELSE IF b = B_METHOD THEN "notifications/message"
    ELSE IF b = B_RESULT THEN "{}"
    ELSE IF b = B_TOOLS THEN "{\"tools\": []}"
    ELSE IF b = E_ACUTE THEN "{\"text\": \"e acute\"}"
    ELSE IF b = B_ERR_NOTFOUND THEN [code |-> -32601, message |-> "Tool not found"]
    ELSE IF b = B_ERR_PARAMS THEN [code |-> -32602, message |-> "Invalid params"]
    ELSE b - B_ID0

\* A parsed JSON value: its type and, for an object, its members.
Value(t, m) == [type |-> t, members |-> m]
\* None where a response (dict) is expected; an exception leaving the call.
None == Value("None", <<>>)
Raised == Value("raised", <<>>)
JSONDecodeError == Value("JSONDecodeError", <<>>)

\* json.loads: an object (the sequence of its members), a number, or the
\* error raised.  A text is an object only when it is complete.
json_loads(s) ==
    IF Len(s) >= 2 /\ s[1] = LBRACE /\ s[Len(s)] = RBRACE
          /\ \A i \in 2..(Len(s) - 1) : s[i] \in MemberBytes
    THEN Value("object", SubSeq(s, 2, Len(s) - 1))
    ELSE IF Len(s) = 1 /\ s[1] \in IdBytes
    THEN Value("number", s)
    ELSE JSONDecodeError

\* "key" in response
Has(obj, key) == \E i \in 1..Len(obj.members) : KeyOf(obj.members[i]) = key

\* response[key]: a later member overrides an earlier one of the same key.
Get(obj, key) ==
    LET idx == {i \in 1..Len(obj.members) : KeyOf(obj.members[i]) = key}
        last == CHOOSE i \in idx : \A j \in idx : j <= i
    IN ValueOf(obj.members[last])

\* json.dumps of an object given by its member bytes.
json_dumps(members) == <<LBRACE>> \o members \o <<RBRACE>>

\* length_prefix + message_bytes, of the text data
Frame(data) == to_bytes(Len(utf8_encode(data))) \o utf8_encode(data)

\* The frames a protocol-abiding peer sends: notifications (no id) and
\* responses (the id of a request the client has made, and a result or an
\* error).
Notification(m) == json_dumps(<<B_JSONRPC, m>>)
Response(i, b) == json_dumps(<<B_JSONRPC, B_ID0 + i, b>>)
Notifications == {Notification(B_PROGRESS), Notification(B_METHOD)}
Responses(ids) == {Response(i, b) : i \in ids, b \in {B_RESULT, B_ERR_NOTFOUND, B_ERR_PARAMS}}

\* The frames of a peer that does not keep to the protocol: any declared
\* length, any short payload.
RawBytes == {LBRACE, RBRACE, B_BAD}
RawPayloads == UNION {[1..n -> RawBytes] : n \in 0..MaxLen}
RawLengths == (0..MaxLen) \cup {MAX_MESSAGE, MAX_MESSAGE + 1}

\* ------------------------------------------------------------------ state

VARIABLES
    cls,                    \* the class of the client object
    socket,                 \* self.socket
    request_id,             \* self.request_id
    initialized,            \* self.initialized
    session_state,          \* self.session_state (SessionMCPClient)
    progress_notifications, \* self.progress_notifications (SessionToolClient)
    pc,                     \* where the calling thread is
    op,                     \* the public method it is in (or was in last)
    result,                 \* what that method returned
    rid,                    \* send_request: request_id (the local)
    timeout,                \* send_request: timeout
    elapsed,                \* send_request: time.time() - start_time
    length_data,            \* _receive_framed_message: length_data
    message_length,         \* _receive_framed_message: message_length
    message_data,           \* _receive_framed_message: message_data
    recv_ret,               \* what _receive_framed_message returned
    why,                    \* the place at which _receive_framed_message returned
    arrived,                \* bytes in the socket's receive buffer
    pending,                \* bytes the peer has written that are still under way
    peer_closed,            \* the peer has closed its end
    burst,                  \* frames the peer may still write before the next tick
    last_sent,              \* the last frame the client wrote to this socket
    n_sent,                 \* the number of frames it wrote to this socket
    shape,                  \* history: what the peer wrote during this request
    answer,                 \* history: the response it wrote, if shape is "answered"
    clean,                  \* history: the stream was empty when the request began
    stalled,                \* history: a receive was abandoned inside a frame
    taken,                  \* history: the bytes recv handed out in this receive call
    short,                  \* history: a recv of it handed out fewer bytes than asked for
    parsed,                 \* history: the text handed to json.loads in the last turn
    lock,                   \* self.lock: the thread holding it, or 0
    tpc,                    \* per thread: where it is in _get_next_id
    tmp,                    \* per thread: the value it loaded from self.request_id
    calls,                  \* per thread: calls of _get_next_id it has finished
    returned                \* history: the values _get_next_id returned, in order

objVars == <<cls, socket, request_id, initialized, session_state, progress_notifications>>
callVars == <<pc, op, result, rid, timeout, elapsed>>
recvVars == <<length_data, message_length, message_data, recv_ret, why>>
wireVars == <<arrived, pending, peer_closed, burst>>
sentVars == <<last_sent, n_sent>>
histVars == <<shape, answer, clean, stalled, taken, short, parsed>>
thrVars == <<lock, tpc, tmp, calls, returned>>

\* The integrated test runner (integrated_test_runner.py): its objects, its
\* three threads, the serial device and the child process.
VARIABLES
    running,                \* IntegratedTestRunner.running
    log_file,               \* IntegratedTestRunner.log_file: "None", "open", "closed"
    log_queue,              \* IntegratedTestRunner.log_queue, oldest entry first
    serial_running,         \* SerialMonitor.running
    serial_conn,            \* SerialMonitor.serial_conn: "None", "open", "closed"
    main_pc,                \* main thread: where it is in the method it called
    monitor_pc,             \* thread of _monitor_serial: "none" before it is started
    consumer_pc,            \* thread of _process_log_queue: "none" before it is started
    log_entry,              \* _process_log_queue: log_entry (the local)
    process,                \* the child of run_test_script: its state, output, exit status
    stdout,                 \* the number of lines of the child that readline has returned
    returncode,             \* process.returncode
    success,                \* what run_test_script returned
    exc,                    \* the exception that left the last call of the main thread
    stage,                  \* main(): where the program is; "api" for any other caller
    interrupted,            \* SIGINT has been delivered
    budget,                 \* what the serial device, the child and the caller may still do
    put_hist,               \* history: every entry put on the queue, in put order
    displayed,              \* history: the entries _display_log_entry printed, in order
    written,                \* history: the entries written to the file, in order
    file_ops,               \* history: who did what to the file handle
    marks,                  \* history: the number of puts when logging started, and stopped
    faults,                 \* history: the faults the producers met, by kind
    in_waiting,             \* the serial port: the bytes received and not yet read
    console                 \* history: every byte the device has written to its console

runnerVars == <<running, log_file, log_queue>>
serialVars == <<serial_running, serial_conn>>
mainVars == <<main_pc, exc, stage, interrupted>>
childVars == <<process, stdout, returncode, success>>
threadVars == <<monitor_pc, consumer_pc, log_entry>>
logVars == <<put_hist, displayed, written, file_ops, marks, faults>>
consoleVars == <<in_waiting, console>>
aggVars == <<runnerVars, serialVars, mainVars, childVars, threadVars, budget, logVars,
             consoleVars>>
clientVars == <<objVars, callVars, recvVars, wireVars, sentVars, histVars, thrVars>>
vars == <<clientVars, aggVars>>

Mgmt == "SessionMCPClient"
Tool == "SessionToolClient"
Mcp == "MCPClient"
Threads == 1..NumThreads

\* SessionState
UNINITIALIZED == "UNINITIALIZED"
INITIALIZED == "INITIALIZED"
ACTIVE == "ACTIVE"
ERROR_STATE == "ERROR_STATE"

\* What a public method returned: a value (None, True, False, a response,
\* a text) and, for SessionToolClient.call_tool, the progress events with it.
Ret(t, m, ev) == [type |-> t, members |-> m, events |-> ev]
RetValue(v) == Ret(v.type, v.members, <<>>)
RetBool(b) == Ret(IF b THEN "True" ELSE "False", <<>>, <<>>)
RetText(s) == IF s = NoneText THEN RetValue(None) ELSE Ret("text", s, <<>>)
\* ... and while it has not returned yet.
Running == Ret("running", <<>>, <<>>)

\* The frames the client writes, as <<method, id>> (id 0: a notification).
Request(method, id) == <<method, id>>
InitializedNotification == <<"notifications/initialized", 0>>
NoFrame == <<"", 0>>

\* __init__
InitObject(c) ==
    /\ cls = c
    /\ socket = "None"
    /\ request_id = 0
    /\ initialized = FALSE
    /\ session_state = UNINITIALIZED
    /\ progress_notifications = <<>>
    /\ lock = 0

\* ------------------------------------------------- integrated test runner

\* LogEntry(timestamp, source, level, message): the timestamp is the number
\* of the put, the message a text and, for an output line, its number.
LogEntry(n, source, level, text, k) ==
    [timestamp |-> n, source |-> source, level |-> level, message |-> <<text, k>>]

NoEntry == LogEntry(0, "", "", "", 0)

\* process.returncode while there is none: no child, or a child that has
\* not been waited for.
NoStatus == -1

\* No child yet: run_test_script has not reached Popen.
NoProcess == [state |-> "None", output |-> <<>>, status |-> NoStatus]

\* The state after IntegratedTestRunner.__init__ (and SerialMonitor.__init__,
\* TestExecutor.__init__): nothing runs, nothing is open, the queue is empty.
RunnerInit ==
    /\ running = FALSE /\ log_file = "None" /\ log_queue = <<>>
    /\ serial_running = FALSE /\ serial_conn = "None"
    /\ main_pc = "idle" /\ monitor_pc = "none" /\ consumer_pc = "none"
    /\ log_entry = NoEntry
    /\ process = NoProcess
    /\ stdout = 0 /\ returncode = NoStatus /\ success = "None"
    /\ exc = [call |-> "__init__", raised |-> "None"]
    /\ interrupted = FALSE
    /\ budget = [serial |-> MaxSerial, lines |-> MaxLines, stops |-> MaxStops,
                 runs |-> MaxRuns, messages |-> MaxMessages]
    /\ put_hist = <<>> /\ displayed = <<>> /\ written = <<>>
    /\ file_ops = {}
    /\ marks = [start |-> -1, stop |-> -1]
    /\ faults = [serial_open |-> 0, serial_read |-> 0, execution |-> 0]
    /\ in_waiting = <<>> /\ console = <<>>

ClientRest ==
    /\ pc = "idle" /\ op = "__init__" /\ result = RetValue(None)
    /\ rid = 0 /\ timeout = 0 /\ elapsed = 0
    /\ length_data = <<>> /\ message_length = 0 /\ message_data = <<>>
    /\ recv_ret = NoneText /\ why = "never called"
    /\ arrived = <<>> /\ pending = <<>> /\ peer_closed = FALSE /\ burst = 0
    /\ last_sent = NoFrame /\ n_sent = 0
    /\ shape = "notifications" /\ answer = <<>>
    /\ clean = TRUE /\ stalled = FALSE
    /\ taken = <<>> /\ short = FALSE /\ parsed = NoneText
    /\ tpc = [t \in Threads |-> "idle"]
    /\ tmp = [t \in Threads |-> 0]
    /\ calls = [t \in Threads |-> 0]
    /\ returned = <<>>

\* Both clients and the runner, as constructed.
InitRest == ClientRest /\ RunnerInit /\ stage = "api"

Init == (\E c \in {Mgmt, Tool} : InitObject(c)) /\ InitRest

\* ------------------------------------------------------------- the stream

InCall == pc \in {"header", "payload", "received"}
Blocked == pc \in {"header", "payload", "recv"} /\ arrived = <<>>
InRequest == InCall /\ op # "_receive_framed_message"

\* What the peer has written during the request, after one more payload.
NextShape(payload) ==
    IF payload \in Notifications /\ shape = "notifications" THEN "notifications"
    ELSE IF payload \in Responses({rid}) /\ shape = "notifications" THEN "answered"
    ELSE "other"

\* The peer writes one whole frame, while the client waits in recv and
\* nothing else is under way.
PeerWrite(bytes, payload) ==
    /\ Blocked
    /\ socket = "connected" /\ ~peer_closed
    /\ pending = <<>> /\ burst > 0
    /\ pending' = bytes
    /\ burst' = burst - 1
    /\ shape' = NextShape(payload)
    /\ answer' = IF NextShape(payload) = "answered" THEN payload ELSE answer
    /\ UNCHANGED <<arrived, peer_closed, clean, stalled, taken, short, parsed>>
    /\ UNCHANGED <<objVars, callVars, recvVars, sentVars, thrVars, aggVars>>

PeerSend == \E f \in Notifications \cup Responses(1..request_id) : PeerWrite(Frame(f), f)

PeerSendRaw == \E n \in RawLengths, f \in RawPayloads : PeerWrite(to_bytes(n) \o f, f)

\* The frames of a faulty peer, one of each kind: a JSON number, a text that
\* is not UTF-8, a text that is not JSON, the empty object, a response
\* without "jsonrpc", a response without "id", a response with the id of no
\* request, and a header over the cap.
FaultPayloads ==
    { <<B_ID0 + 1>>, <<B_BAD>>, <<LBRACE>>, json_dumps(<<>>),
      json_dumps(<<B_ID0 + 1, B_RESULT>>), json_dumps(<<B_JSONRPC, B_RESULT>>),
      json_dumps(<<B_JSONRPC, B_ID0 + 9, B_RESULT>>) }
FaultFrames == {Frame(f) : f \in FaultPayloads} \cup {to_bytes(MAX_MESSAGE + 1)}

PeerSendFault == \E b \in FaultFrames : PeerWrite(b, Drop(b, HEADER_LEN))

\* The next k bytes under way reach the client's receive buffer while it
\* waits in recv, which then hands them out (as many as it was asked for).
Deliver(k) ==
    /\ Blocked
    /\ k <= Len(pending)
    /\ arrived' = Take(pending, k)
    /\ pending' = Drop(pending, k)
    /\ UNCHANGED <<peer_closed, burst, shape, answer, clean, stalled, taken, short, parsed>>
    /\ UNCHANGED <<objVars, callVars, recvVars, sentVars, thrVars, aggVars>>

\* ... in chunks of every size, so that recv hands out every split.
Arrive == \E k \in 1..Len(pending) : Deliver(k)

\* ... byte by byte: the client is given the time to read each byte before
\* the next arrives.
ArriveBlocked == Deliver(1)

\* The peer closes the connection (after what it wrote).
PeerClose ==
    /\ socket = "connected" /\ ~peer_closed /\ pending = <<>>
    /\ peer_closed' = TRUE
    /\ UNCHANGED <<arrived, pending, burst>>
    /\ UNCHANGED <<objVars, callVars, recvVars, sentVars, histVars, thrVars, aggVars>>

\* ------------------------------------------------- _receive_framed_message

\* A variant of the length check that turns down the cap itself.
TooLarge_AtCap(n) == n >= MAX_MESSAGE

\* if message_length > 1024 * 1024
TooLarge(n) == n > MAX_MESSAGE

\* A variant of the read loops that calls recv once: what the first recv
\* handed out is taken for the whole.
Incomplete_OneRecv(data, n) == Len(data) = 0 /\ Len(data) < n

\* while len(length_data) < 4 / while len(message_data) < message_length
Incomplete(data, n) == Len(data) < n

\* The clock after one more receive timeout (it stops counting at the cap).
ElapsedCap == MaxTimeout + 1
Tick(e) == IF e < ElapsedCap THEN e + 1 ELSE e

\* A call of _receive_framed_message on a socket, up to its first recv; its
\* locals are those of a new call.
RecvEnter ==
    /\ pc' = "header"
    /\ length_data' = <<>>
    /\ message_length' = 0
    /\ message_data' = <<>>
    /\ recv_ret' = NoneText
    /\ why' = "running"

\* _receive_framed_message returns v, from the place named w.
RecvReturn(v, w) ==
    /\ recv_ret' = v
    /\ why' = w
    /\ pc' = "received"

\* chunk = self.socket.recv(4 - len(length_data)), with bytes to read; with
\* the header whole, the length check and, for an empty payload, the return.
RecvHeader ==
    /\ pc = "header" /\ socket = "connected" /\ arrived # <<>>
    /\ LET n == Min(HEADER_LEN - Len(length_data), Len(arrived))
           ld == length_data \o Take(arrived, n)
           ml == from_bytes(ld)
       IN /\ arrived' = Drop(arrived, n)
          /\ taken' = taken \o Take(arrived, n)
          /\ short' = (short \/ n < HEADER_LEN - Len(length_data))
          /\ length_data' = ld
          /\ IF Incomplete(ld, HEADER_LEN)
             THEN UNCHANGED <<pc, message_length, message_data, recv_ret, why>>
             ELSE /\ message_length' = ml
                  /\ IF TooLarge(ml)
                     THEN /\ RecvReturn(NoneText, "too large")
                          /\ UNCHANGED message_data
                     ELSE /\ message_data' = <<>>
                          /\ IF Incomplete(<<>>, ml)
                             THEN /\ pc' = "payload"
                                  /\ UNCHANGED <<recv_ret, why>>
                             ELSE RecvReturn(utf8_decode(<<>>), "return")
    /\ UNCHANGED <<pending, peer_closed, burst, sentVars, thrVars, aggVars>>
    /\ UNCHANGED <<objVars, op, result, rid, timeout, elapsed>>
    /\ UNCHANGED <<shape, answer, clean, stalled, parsed>>

\* chunk = self.socket.recv(message_length - len(message_data)), with bytes
\* to read; message_data.decode('utf-8') once the payload is whole.
RecvPayload ==
    /\ pc = "payload" /\ socket = "connected" /\ arrived # <<>>
    /\ LET n == Min(message_length - Len(message_data), Len(arrived))
           md == message_data \o Take(arrived, n)
           text == utf8_decode(md)
       IN /\ arrived' = Drop(arrived, n)
          /\ taken' = taken \o Take(arrived, n)
          /\ short' = (short \/ n < message_length - Len(message_data))
          /\ message_data' = md
          /\ IF Incomplete(md, message_length)
             THEN UNCHANGED <<pc, recv_ret, why>>
             ELSE IF text = UnicodeDecodeError
                  THEN RecvReturn(NoneText, "decode error")
                  ELSE RecvReturn(text, "return")
    /\ UNCHANGED <<pending, peer_closed, burst, sentVars, thrVars, aggVars>>
    /\ UNCHANGED <<objVars, op, result, rid, timeout, elapsed>>
    /\ UNCHANGED <<length_data, message_length>>
    /\ UNCHANGED <<shape, answer, clean, stalled, parsed>>

\* The clock of send_request's loop, one receive timeout later.
Later == IF cls = Tool /\ InRequest THEN Tick(elapsed) ELSE elapsed

\* recv raises socket.timeout: nothing came for the whole receive timeout.
\* What was read of the frame so far is dropped with the locals.
RecvTimeout ==
    /\ Blocked /\ socket = "connected"
    /\ ~(peer_closed /\ pending = <<>>)
    /\ RecvReturn(NoneText, "timeout")
    /\ elapsed' = Later
    /\ burst' = PeerBurst
    /\ stalled' = (stalled \/ pc = "payload" \/ length_data # <<>>)
    /\ UNCHANGED <<arrived, pending, peer_closed, sentVars, thrVars, aggVars>>
    /\ UNCHANGED <<objVars, op, result, rid, timeout>>
    /\ UNCHANGED <<length_data, message_length, message_data>>
    /\ UNCHANGED <<shape, answer, clean, taken, short, parsed>>

\* recv returns b'' (the peer closed and everything was read), or raises
\* OSError on a socket that never connected: the call returns None at once.
\* The caller's loop then spins; each turn of it takes time, counted here
\* as one tick.
RecvClosed ==
    /\ pc \in {"header", "payload"}
    /\ IF socket = "connected"
       THEN arrived = <<>> /\ peer_closed /\ pending = <<>>
       ELSE socket = "unconnected"
    /\ RecvReturn(NoneText, IF socket = "unconnected" THEN "error" ELSE "closed")
    /\ elapsed' = Later
    /\ stalled' = (stalled \/ pc = "payload" \/ length_data # <<>>)
    /\ UNCHANGED <<wireVars, sentVars, thrVars, aggVars>>
    /\ UNCHANGED <<objVars, op, result, rid, timeout>>
    /\ UNCHANGED <<length_data, message_length, message_data>>
    /\ UNCHANGED <<shape, answer, clean, taken, short, parsed>>

\* ------------------------------------------------------ connect, disconnect

\* connect: a new socket object replaces self.socket before the connection
\* is tried, and stays there when the connection fails.
connect ==
    /\ pc = "idle"
    /\ \E ok \in BOOLEAN :
         /\ socket' = IF ok THEN "connected" ELSE "unconnected"
         /\ result' = RetBool(ok)
    /\ op' = "connect"
    /\ arrived' = <<>> /\ pending' = <<>> /\ peer_closed' = FALSE
    /\ burst' = 0
    /\ last_sent' = NoFrame /\ n_sent' = 0
    /\ UNCHANGED <<cls, request_id, initialized, session_state, progress_notifications>>
    /\ UNCHANGED <<pc, rid, timeout, elapsed, recvVars, histVars, thrVars, aggVars>>

\* disconnect: does nothing without a socket; close() errors are swallowed.
disconnect ==
    /\ pc = "idle"
    /\ op' = "disconnect"
    /\ result' = RetValue(None)
    /\ IF socket # "None"
       THEN /\ socket' = "None"
            /\ initialized' = FALSE
            /\ arrived' = <<>> /\ pending' = <<>> /\ peer_closed' = FALSE
            /\ burst' = 0
            /\ last_sent' = NoFrame /\ n_sent' = 0
       ELSE UNCHANGED <<socket, initialized, wireVars, sentVars>>
    /\ UNCHANGED <<cls, request_id, session_state, progress_notifications>>
    /\ UNCHANGED <<pc, rid, timeout, elapsed, recvVars, histVars, thrVars, aggVars>>

\* ---------------------------------------------------- _send_framed_message

\* What _send_framed_message can return: False without a socket or when
\* sendall raises (never connected; possibly, once the peer has closed).
send_framed_message ==
    IF socket = "None" THEN {FALSE}
    ELSE IF socket = "unconnected" THEN {FALSE}
    ELSE IF peer_closed THEN {TRUE, FALSE}
    ELSE {TRUE}

\* ------------------------------------------------ the tails of the methods

\* not response_json
Falsy(text) == text = NoneText \/ text = <<>>

\* A variant of SessionMCPClient.initialize that marks the session ACTIVE
\* before it looks at the outcome of sending notifications/initialized.
MgmtInitializeTail_ActiveBeforeSend(resp) ==
    IF resp = None \/ Has(resp, "error") \/ ~Has(resp, "result")
    THEN /\ result' = RetBool(FALSE)
         /\ UNCHANGED <<initialized, session_state, sentVars>>
    ELSE \E ok \in send_framed_message :
           /\ initialized' = TRUE
           /\ session_state' = ACTIVE
           /\ result' = RetBool(ok)
           /\ IF ok
              THEN /\ last_sent' = InitializedNotification
                   /\ n_sent' = n_sent + 1
              ELSE UNCHANGED sentVars

\* SessionMCPClient.initialize after send_request returned resp.
MgmtInitializeTail(resp) ==
    IF resp = None \/ Has(resp, "error") \/ ~Has(resp, "result")
    THEN /\ result' = RetBool(FALSE)
         /\ UNCHANGED <<initialized, session_state, sentVars>>
    ELSE \E ok \in send_framed_message :
           IF ok
           THEN /\ initialized' = TRUE
                /\ session_state' = ACTIVE
                /\ result' = RetBool(TRUE)
                /\ last_sent' = InitializedNotification
                /\ n_sent' = n_sent + 1
           ELSE /\ session_state' = INITIALIZED
                /\ result' = RetBool(FALSE)
                /\ UNCHANGED <<initialized, sentVars>>

\* SessionToolClient.initialize after send_request returned resp.
ToolInitializeTail(resp) ==
    /\ UNCHANGED session_state
    /\ IF resp = None \/ Has(resp, "error") \/ ~Has(resp, "result")
       THEN /\ result' = RetBool(FALSE)
            /\ UNCHANGED <<initialized, sentVars>>
       ELSE \E ok \in send_framed_message :
              IF ok
              THEN /\ initialized' = TRUE
                   /\ result' = RetBool(TRUE)
                   /\ last_sent' = InitializedNotification
                   /\ n_sent' = n_sent + 1
              ELSE /\ result' = RetBool(FALSE)
                   /\ UNCHANGED <<initialized, sentVars>>

\* A variant of SessionMCPClient.call_tool that gives None for every
\* response without a result member.
MgmtCallToolValue_ResultOrNone(resp) ==
    IF resp # None /\ Has(resp, "result")
    THEN Ret("result", <<B_RESULT>>, <<>>)
    ELSE RetValue(None)

\* SessionMCPClient.call_tool: the result member, else the response itself.
MgmtCallToolValue(resp) ==
    IF resp # None /\ Has(resp, "result")
    THEN Ret("result", <<B_RESULT>>, <<>>)
    ELSE RetValue(resp)

\* SessionToolClient.call_tool: the response and the collected notifications.
ToolCallToolValue(resp, pn) == Ret(resp.type, resp.members, pn)

\* list_tools returns nothing: [] in SessionMCPClient, {} in SessionToolClient.
NoTools == Ret(IF cls = Mgmt THEN "[]" ELSE "{}", <<>>, <<>>)

\* list_tools: the tools of the result (which it also keeps in
\* available_tools), or nothing.
ListToolsValue(resp) ==
    IF resp # None /\ Has(resp, "result") /\ Get(resp, "result") = ValueOf(B_TOOLS)
    THEN Ret("tools", <<B_TOOLS>>, <<>>)
    ELSE NoTools

\* ping: response is not None and "result" in response
PingValue(resp) == RetBool(resp # None /\ Has(resp, "result"))

\* A variant of the rest of the method that marks the session ERROR_STATE
\* when send_request has failed.
OpTail_ErrorOnFailure(o, resp, pn) ==
    /\ pc' = "returned"
    /\ IF resp = Raised \/ o = "send_request"
       THEN /\ result' = RetValue(resp)
            /\ progress_notifications' = pn
            /\ session_state' = IF resp = None THEN ERROR_STATE ELSE session_state
            /\ UNCHANGED <<initialized, sentVars>>
       ELSE IF o = "initialize"
       THEN /\ progress_notifications' = pn
            /\ IF cls = Mgmt
               THEN MgmtInitializeTail(resp)
               ELSE ToolInitializeTail(resp)
       ELSE IF o = "call_tool"
       THEN /\ UNCHANGED <<initialized, session_state, sentVars>>
            /\ IF cls = Mgmt
               THEN /\ result' = MgmtCallToolValue(resp)
                    /\ progress_notifications' = pn
               ELSE /\ result' = ToolCallToolValue(resp, pn)
                    /\ progress_notifications' = <<>>
       ELSE /\ UNCHANGED <<initialized, session_state, sentVars>>
            /\ progress_notifications' = pn
            /\ result' = IF o = "list_tools" THEN ListToolsValue(resp) ELSE PingValue(resp)

\* The rest of the public method o once send_request has returned resp (or
\* raised); pn is self.progress_notifications at that point.
OpTail(o, resp, pn) ==
    /\ pc' = "returned"
    /\ IF resp = Raised \/ o = "send_request"
       THEN /\ result' = RetValue(resp)
            /\ progress_notifications' = pn
            /\ UNCHANGED <<initialized, session_state, sentVars>>
       ELSE IF o = "initialize"
       THEN /\ progress_notifications' = pn
            /\ IF cls = Mgmt
               THEN MgmtInitializeTail(resp)
               ELSE ToolInitializeTail(resp)
       ELSE IF o = "call_tool"
       THEN /\ UNCHANGED <<initialized, session_state, sentVars>>
            /\ IF cls = Mgmt
               THEN /\ result' = MgmtCallToolValue(resp)
                    /\ progress_notifications' = pn
               ELSE /\ result' = ToolCallToolValue(resp, pn)
                    /\ progress_notifications' = <<>>
       ELSE /\ UNCHANGED <<initialized, session_state, sentVars>>
            /\ progress_notifications' = pn
            /\ result' = IF o = "list_tools" THEN ListToolsValue(resp) ELSE PingValue(resp)

\* ------------------------------------------------------------ send_request

\* _get_next_id, called by one thread alone.
get_next_id == request_id + 1

\* The timeouts a caller passes; SessionMCPClient hands its timeout to recv,
\* where its length plays no part.
Timeouts == IF cls = Tool THEN 1..MaxTimeout ELSE {MaxTimeout}

\* The history of a call starts afresh.
NewCall ==
    /\ shape' = "notifications" /\ answer' = <<>>
    /\ stalled' = FALSE
    /\ clean' = (arrived = <<>> /\ pending = <<>>)
    /\ taken' = <<>> /\ short' = FALSE /\ parsed' = NoneText

\* send_request up to its first recv: the identifier, the request frame,
\* and the call of _receive_framed_message; pn is progress_notifications.
StartRequest(o, t, pn) ==
    /\ pc = "idle"
    /\ request_id < MaxId
    /\ request_id' = get_next_id
    /\ rid' = get_next_id
    /\ op' = o
    /\ timeout' = t
    /\ elapsed' = 0
    /\ NewCall
    /\ \E ok \in send_framed_message :
         IF ok
         THEN /\ last_sent' = Request(o, get_next_id)
              /\ n_sent' = n_sent + 1
              /\ result' = Running
              /\ RecvEnter
              /\ burst' = PeerBurst
              /\ progress_notifications' = pn
              /\ UNCHANGED <<initialized, session_state>>
         ELSE /\ OpTail(o, None, pn)
              /\ UNCHANGED <<recvVars, burst>>
    /\ UNCHANGED <<cls, socket, arrived, pending, peer_closed, thrVars, aggVars>>

\* A public method returns v at once, without a request.
ReturnAtOnce(o, v) ==
    /\ op' = o
    /\ result' = v
    /\ UNCHANGED <<objVars, pc, rid, timeout, elapsed>>
    /\ UNCHANGED <<recvVars, wireVars, sentVars, histVars, thrVars, aggVars>>

\* client.send_request(method, params, timeout)
send_request ==
    \E t \in Timeouts : StartRequest("send_request", t, progress_notifications)

\* initialize: at once True when already initialized.
initialize ==
    /\ pc = "idle"
    /\ IF initialized
       THEN ReturnAtOnce("initialize", RetBool(TRUE))
       ELSE StartRequest("initialize", MaxTimeout, progress_notifications)

\* A variant of the guard of list_tools, call_tool and ping that lets every
\* call through.
NotInitialized_Never(flag) == FALSE

\* if not self.initialized
NotInitialized(flag) == ~flag

\* call_tool: at once None (None, []) when not initialized.
call_tool ==
    /\ pc = "idle"
    /\ IF NotInitialized(initialized)
       THEN ReturnAtOnce("call_tool", RetValue(None))
       ELSE \E t \in Timeouts :
              StartRequest("call_tool", t,
                           IF cls = Tool THEN <<>> ELSE progress_notifications)

\* list_tools: at once [] ({}) when not initialized.
list_tools ==
    /\ pc = "idle"
    /\ IF NotInitialized(initialized)
       THEN ReturnAtOnce("list_tools", NoTools)
       ELSE StartRequest("list_tools", MaxTimeout, progress_notifications)

\* SessionMCPClient.ping: at once False when not initialized.
ping ==
    /\ pc = "idle" /\ cls = Mgmt
    /\ IF NotInitialized(initialized)
       THEN ReturnAtOnce("ping", RetBool(FALSE))
       ELSE StartRequest("ping", MaxTimeout, progress_notifications)

\* client._receive_framed_message(timeout), called by a test directly.
receive_framed_message ==
    /\ pc = "idle"
    /\ op' = "_receive_framed_message"
    /\ NewCall
    /\ result' = Running
    /\ IF socket = "None"
       THEN /\ RecvReturn(NoneText, "not connected")
            /\ UNCHANGED <<length_data, message_length, message_data, burst>>
       ELSE /\ RecvEnter
            /\ burst' = PeerBurst
    /\ UNCHANGED <<objVars, rid, timeout, elapsed>>
    /\ UNCHANGED <<arrived, pending, peer_closed, sentVars, thrVars, aggVars>>

\* ... and its return to the test.
ReceiveResume ==
    /\ pc = "received" /\ op = "_receive_framed_message"
    /\ pc' = "returned"
    /\ result' = RetText(recv_ret)
    /\ UNCHANGED <<objVars, op, rid, timeout, elapsed>>
    /\ UNCHANGED <<recvVars, wireVars, sentVars, histVars, thrVars, aggVars>>

\* response["id"] == request_id
MatchesId(resp, id) == Has(resp, "id") /\ Get(resp, "id") = id

\* "method" in response and response["method"] == "notifications/progress"
IsProgress(resp) == Has(resp, "method") /\ Get(resp, "method") = "notifications/progress"

\* SessionMCPClient.send_request after _receive_framed_message returned:
\* what send_request returns.
MgmtResponse(text, id) ==
    IF Falsy(text) THEN None
    ELSE LET r == json_loads(text)
         IN IF r = JSONDecodeError THEN None
            ELSE IF r.type # "object" THEN Raised
            ELSE IF ~Has(r, "jsonrpc") \/ Get(r, "jsonrpc") # "2.0" THEN None
            ELSE IF Has(r, "id") /\ Get(r, "id") # id THEN None
            ELSE r

Continue == Value("continue", <<>>)
Progress == Value("progress", <<>>)

\* SessionToolClient.send_request, one turn of its loop body after
\* _receive_framed_message returned: continue (Progress: with the frame
\* appended to progress_notifications), the response to return, or Raised.
ToolTurn(text, id) ==
    IF Falsy(text) THEN Continue
    ELSE LET r == json_loads(text)
         IN IF r = JSONDecodeError THEN Continue
            ELSE IF r.type # "object" THEN Raised
            ELSE IF IsProgress(r) THEN Progress
            ELSE IF MatchesId(r, id) THEN r
            ELSE Continue

\* A variant of the loop that never looks at the clock.
LoopGoesOn_Forever(e, t) == TRUE

\* while (time.time() - start_time) < timeout
LoopGoesOn(e, t) == e < t

\* SessionMCPClient.send_request from the return of _receive_framed_message,
\* and the rest of the method that called it.
MgmtResume ==
    /\ pc = "received" /\ cls = Mgmt /\ op # "_receive_framed_message"
    /\ parsed' = IF Falsy(recv_ret) THEN NoneText ELSE recv_ret
    /\ OpTail(op, MgmtResponse(recv_ret, rid), progress_notifications)
    /\ UNCHANGED <<cls, socket, request_id, op, rid, timeout, elapsed>>
    /\ UNCHANGED <<recvVars, wireVars, thrVars, aggVars>>
    /\ UNCHANGED <<shape, answer, clean, stalled, taken, short>>

\* SessionToolClient.send_request from the return of _receive_framed_message:
\* one turn of the loop, then the next call of _receive_framed_message, or
\* the return and the rest of the method that called it.
ToolResume ==
    /\ pc = "received" /\ cls = Tool /\ op # "_receive_framed_message"
    /\ parsed' = IF Falsy(recv_ret) THEN NoneText ELSE recv_ret
    /\ LET turn == ToolTurn(recv_ret, rid)
           pn == IF turn = Progress
                 THEN Append(progress_notifications, json_loads(recv_ret))
                 ELSE progress_notifications
       IN IF turn \in {Continue, Progress}
          THEN IF LoopGoesOn(elapsed, timeout)
               THEN /\ RecvEnter
                    /\ taken' = <<>> /\ short' = FALSE
                    /\ progress_notifications' = pn
                    /\ UNCHANGED <<initialized, session_state, result, sentVars>>
               ELSE /\ OpTail(op, None, pn)
                    /\ UNCHANGED <<recvVars, taken, short>>
          ELSE /\ OpTail(op, turn, pn)
               /\ UNCHANGED <<recvVars, taken, short>>
    /\ UNCHANGED <<cls, socket, request_id, op, rid, timeout, elapsed>>
    /\ UNCHANGED <<wireVars, thrVars, aggVars>>
    /\ UNCHANGED <<shape, answer, clean, stalled>>

\* The caller goes on after a method that made a request (or a receive call)
\* returned: the locals of the call are gone, and with them its history.
Forget ==
    /\ pc = "returned"
    /\ pc' = "idle"
    /\ op' = "none"
    /\ result' = RetValue(None)
    /\ rid' = 0 /\ timeout' = 0 /\ elapsed' = 0
    /\ length_data' = <<>> /\ message_length' = 0 /\ message_data' = <<>>
    /\ recv_ret' = NoneText /\ why' = "never called"
    /\ shape' = "notifications" /\ answer' = <<>>
    /\ clean' = TRUE /\ stalled' = FALSE
    /\ taken' = <<>> /\ short' = FALSE /\ parsed' = NoneText
    /\ UNCHANGED <<objVars, wireVars, sentVars, thrVars, aggVars>>

\* ------------------------------------------- _get_next_id, called by threads

\* A variant of the lock that lets every thread in.
LockFree_NoLock(l) == TRUE

\* self.lock can be taken.
LockFree(l) == l = 0

\* with self.lock: thread t enters.
Acquire(t) ==
    /\ tpc[t] = "idle" /\ calls[t] < CallsPerThread
    /\ LockFree(lock)
    /\ lock' = t
    /\ tpc' = [tpc EXCEPT ![t] = "locked"]
    /\ UNCHANGED <<tmp, calls, returned>>
    /\ UNCHANGED <<objVars, callVars, recvVars, wireVars, sentVars, histVars, aggVars>>

\* self.request_id += 1, the read of the attribute.
Load(t) ==
    /\ tpc[t] = "locked"
    /\ tmp' = [tmp EXCEPT ![t] = request_id]
    /\ tpc' = [tpc EXCEPT ![t] = "loaded"]
    /\ UNCHANGED <<lock, calls, returned>>
    /\ UNCHANGED <<objVars, callVars, recvVars, wireVars, sentVars, histVars, aggVars>>

\* self.request_id += 1, the write of the attribute.
Store(t) ==
    /\ tpc[t] = "loaded"
    /\ request_id' = tmp[t] + 1
    /\ tpc' = [tpc EXCEPT ![t] = "stored"]
    /\ UNCHANGED <<lock, tmp, calls, returned>>
    /\ UNCHANGED <<cls, socket, initialized, session_state, progress_notifications>>
    /\ UNCHANGED <<callVars, recvVars, wireVars, sentVars, histVars, aggVars>>

\* return self.request_id, and the lock is given up on the way out.
Return(t) ==
    /\ tpc[t] = "stored"
    /\ returned' = Append(returned, request_id)
    /\ lock' = 0
    /\ calls' = [calls EXCEPT ![t] = calls[t] + 1]
    /\ tpc' = [tpc EXCEPT ![t] = "idle"]
    /\ UNCHANGED tmp
    /\ UNCHANGED <<objVars, callVars, recvVars, wireVars, sentVars, histVars, aggVars>>

\* ------------------------------------------- the runner: queue and file

\* self.log_queue.put(LogEntry(datetime.now(), source, level, message))
Put(source, level, text, k) ==
    LET e == LogEntry(Len(put_hist) + 1, source, level, text, k)
    IN /\ log_queue' = Append(log_queue, e)
       /\ put_hist' = Append(put_hist, e)

\* A variant of the queue that hands out the newest entry first.
QueueGet_Newest(q) == [entry |-> q[Len(q)], rest |-> SubSeq(q, 1, Len(q) - 1)]

\* self.log_queue.get(): the oldest entry, and the queue without it.
QueueGet(q) == [entry |-> Head(q), rest |-> Tail(q)]

\* if self.log_file: a file object counts as true, open or closed.
Truthy(f) == f # "None"

\* A variant of the file object whose close() refuses a closed file.
CloseRaises_WhenClosed(f) == f = "closed"

\* self.log_file.close() raises nothing, on a closed file too.
CloseRaises(f) == FALSE

\* The call of the main thread has returned (e is "None") or raised e.
Leave(call, e) ==
    /\ main_pc' = "idle"
    /\ exc' = [call |-> call, raised |-> e]

\* ------------------------------------------------------ start_logging

\* start_logging(log_file_path) up to serial_monitor.start(): the file is
\* opened (or open raises) and _write_log_header writes and flushes.
StartLogging(log_file_path, opens) ==
    /\ main_pc = "idle"
    /\ marks.start = -1
    /\ marks' = [marks EXCEPT !.start = Len(put_hist)]
    /\ IF log_file_path = "None"
       THEN /\ main_pc' = "serial_monitor.start"
            /\ UNCHANGED <<log_file, file_ops, exc>>
       ELSE IF opens
       THEN /\ log_file' = "open"
            /\ file_ops' = file_ops \cup {<<"main", "open">>, <<"main", "write">>,
                                          <<"main", "flush">>}
            /\ main_pc' = "serial_monitor.start"
            /\ UNCHANGED exc
       ELSE /\ Leave("start_logging", "OSError")
            /\ UNCHANGED <<log_file, file_ops>>
    /\ UNCHANGED <<running, log_queue, serialVars, interrupted, childVars, threadVars>>
    /\ UNCHANGED <<budget, put_hist, displayed, written, faults, clientVars, consoleVars>>

start_logging ==
    /\ stage = "api"
    /\ \E log_file_path \in {"None", "file"}, opens \in BOOLEAN :
         StartLogging(log_file_path, opens)
    /\ UNCHANGED stage

\* SerialMonitor.start, called by start_logging.
StartMonitor ==
    /\ main_pc = "serial_monitor.start"
    /\ serial_running' = TRUE
    /\ monitor_pc' = "open"
    /\ main_pc' = "log_thread.start"
    /\ UNCHANGED <<runnerVars, serial_conn, exc, stage, interrupted, childVars>>
    /\ UNCHANGED <<consumer_pc, log_entry, budget, logVars, clientVars, consoleVars>>

\* start_logging: self.running = True, the consumer thread is started, and
\* the method returns.
StartConsumer ==
    /\ main_pc = "log_thread.start"
    /\ running' = TRUE
    /\ consumer_pc' = "while"
    /\ Leave("start_logging", "None")
    /\ UNCHANGED <<log_file, log_queue, serialVars, stage, interrupted, childVars>>
    /\ UNCHANGED <<monitor_pc, log_entry, budget, logVars, clientVars, consoleVars>>

\* ------------------------------------------------------- stop_logging

\* stop_logging: self.running = False
StopLogging ==
    /\ main_pc = "idle"
    /\ budget.stops > 0
    /\ budget' = [budget EXCEPT !.stops = @ - 1]
    /\ running' = FALSE
    /\ marks' = [marks EXCEPT !.stop = IF @ = -1 THEN Len(put_hist) ELSE @]
    /\ main_pc' = "serial_monitor.stop"
    /\ UNCHANGED <<log_file, log_queue, serialVars, exc, interrupted, childVars>>
    /\ UNCHANGED <<threadVars, put_hist, displayed, written, file_ops, faults, clientVars, consoleVars>>

stop_logging == stage = "api" /\ StopLogging /\ UNCHANGED stage

\* SerialMonitor.stop: running = False, and the port is closed if the
\* monitor thread has opened it.
SerialStop ==
    /\ serial_running' = FALSE
    /\ serial_conn' = IF Truthy(serial_conn) THEN "closed" ELSE serial_conn

\* stop_logging: self.serial_monitor.stop()
StopMonitor ==
    /\ main_pc = "serial_monitor.stop"
    /\ SerialStop
    /\ main_pc' = "log_file.close"
    /\ UNCHANGED <<runnerVars, exc, stage, interrupted, childVars, threadVars>>
    /\ UNCHANGED <<budget, logVars, clientVars, consoleVars>>

\* stop_logging: if self.log_file: self.log_file.close(), and the return.
StopClose ==
    /\ main_pc = "log_file.close"
    /\ IF Truthy(log_file)
       THEN IF CloseRaises(log_file)
            THEN /\ Leave("stop_logging", "ValueError")
                 /\ UNCHANGED <<log_file, file_ops>>
            ELSE /\ log_file' = "closed"
                 /\ file_ops' = file_ops \cup {<<"main", "close">>}
                 /\ Leave("stop_logging", "None")
       ELSE /\ Leave("stop_logging", "None")
            /\ UNCHANGED <<log_file, file_ops>>
    /\ UNCHANGED <<running, log_queue, serialVars, stage, interrupted, childVars>>
    /\ UNCHANGED <<threadVars, budget, put_hist, displayed, written, marks, faults>>
    /\ UNCHANGED <<clientVars, consoleVars>>

\* ------------------------------------------------- _log_test_message

\* runner._log_test_message(message, level), as run_test_suite and main
\* call it: one entry of the source CLIENT.
LogTestMessage ==
    /\ main_pc = "idle"
    /\ budget.messages > 0
    /\ budget' = [budget EXCEPT !.messages = @ - 1]
    /\ Put("CLIENT", "INFO", "test message", 0)
    /\ UNCHANGED <<running, log_file, serialVars, mainVars, childVars>>
    /\ UNCHANGED <<threadVars, displayed, written, file_ops, marks, faults>>
    /\ UNCHANGED <<clientVars, consoleVars>>

log_test_message == stage = "api" /\ LogTestMessage

\* --------------------------------------------------- run_test_script

\* A variant that reports success whatever the exit status.
Succeeded_Always(status) == TRUE

\* process.returncode == 0
Succeeded(status) == status = 0

\* run_test_script: the entry that announces the test.
RunTestScript ==
    /\ main_pc = "idle"
    /\ budget.runs > 0
    /\ budget' = [budget EXCEPT !.runs = @ - 1]
    /\ Put("CLIENT", "TEST", "Starting test", 0)
    /\ main_pc' = "Popen"
    /\ process' = NoProcess
    /\ stdout' = 0 /\ returncode' = NoStatus /\ success' = "None"
    /\ UNCHANGED <<running, log_file, serialVars, exc, interrupted>>
    /\ UNCHANGED <<threadVars, displayed, written, file_ops, marks, faults>>
    /\ UNCHANGED <<clientVars, consoleVars>>

run_test_script == stage = "api" /\ RunTestScript /\ UNCHANGED stage

\* except Exception as e: the entry for the error, and return False.
ExecutionError ==
    /\ Put("CLIENT", "ERROR", "Test execution error", 0)
    /\ faults' = [faults EXCEPT !.execution = @ + 1]
    /\ success' = FALSE
    /\ Leave("run_test_script", "None")

\* subprocess.Popen(cmd, ...): the child runs, or the launch raises.
Popen ==
    /\ main_pc = "Popen"
    /\ \E launched \in BOOLEAN :
         IF launched
         THEN /\ process' = [process EXCEPT !.state = "running"]
              /\ main_pc' = "readline"
              /\ UNCHANGED <<log_queue, put_hist, faults, success, exc>>
         ELSE /\ ExecutionError
              /\ UNCHANGED process
    /\ UNCHANGED <<running, log_file, serialVars, stage, interrupted>>
    /\ UNCHANGED <<stdout, returncode, threadVars, budget>>
    /\ UNCHANGED <<displayed, written, file_ops, marks, clientVars, consoleVars>>

\* for line in iter(process.stdout.readline, ''): the next line of the
\* child: no entry for a blank line, the except branch for a line that is
\* not text.
ReadLine ==
    /\ main_pc = "readline"
    /\ stdout < Len(process.output)
    /\ stdout' = stdout + 1
    /\ LET line == process.output[stdout + 1]
       IN IF line = "blank"
          THEN UNCHANGED <<log_queue, put_hist, faults, success, main_pc, exc>>
          ELSE IF line = "text"
          THEN /\ Put("CLIENT", "INFO", "line", stdout + 1)
               /\ UNCHANGED <<faults, success, main_pc, exc>>
          ELSE ExecutionError
    /\ UNCHANGED <<running, log_file, serialVars, stage, interrupted>>
    /\ UNCHANGED <<process, returncode, threadVars, budget>>
    /\ UNCHANGED <<displayed, written, file_ops, marks, clientVars, consoleVars>>

\* readline returns '' once the child has closed its output.
ReadEOF ==
    /\ main_pc = "readline"
    /\ stdout = Len(process.output)
    /\ process.state \in {"closed", "exited"}
    /\ main_pc' = "wait"
    /\ UNCHANGED <<runnerVars, serialVars, exc, stage, interrupted, childVars>>
    /\ UNCHANGED <<threadVars, budget, logVars, clientVars, consoleVars>>

\* process.wait() returns once the child has exited; then the final entry
\* and the return.
Wait ==
    /\ main_pc = "wait"
    /\ process.state = "exited"
    /\ returncode' = process.status
    /\ IF Succeeded(process.status)
       THEN Put("CLIENT", "TEST", "Test completed successfully", 0)
       ELSE Put("CLIENT", "ERROR", "Test failed", 0)
    /\ success' = Succeeded(process.status)
    /\ Leave("run_test_script", "None")
    /\ UNCHANGED <<running, log_file, serialVars, stage, interrupted>>
    /\ UNCHANGED <<process, stdout, threadVars, budget>>
    /\ UNCHANGED <<displayed, written, file_ops, marks, faults, clientVars, consoleVars>>

\* The main thread waits for the child: in readline with every line read,
\* or in process.wait().  The child acts while it is waited for; what it
\* does earlier reaches the main thread in the same order through the pipe.
AwaitsChild ==
    \/ main_pc = "readline" /\ stdout = Len(process.output)
    \/ main_pc = "wait"

\* The child writes a line.
ChildWrite ==
    /\ process.state = "running"
    /\ AwaitsChild
    /\ budget.lines > 0
    /\ budget' = [budget EXCEPT !.lines = @ - 1]
    /\ \E line \in {"text", "blank", "undecodable"} :
         process' = [process EXCEPT !.output = Append(@, line)]
    /\ UNCHANGED <<runnerVars, serialVars, mainVars, stdout, returncode, success>>
    /\ UNCHANGED <<threadVars, logVars, clientVars, consoleVars>>

\* The child closes its output and stays alive.
ChildClose ==
    /\ process.state = "running"
    /\ AwaitsChild
    /\ process' = [process EXCEPT !.state = "closed"]
    /\ UNCHANGED <<runnerVars, serialVars, mainVars, stdout, returncode, success>>
    /\ UNCHANGED <<threadVars, budget, logVars, clientVars, consoleVars>>

\* The child exits, which closes its output.
ChildExit ==
    /\ process.state \in {"running", "closed"}
    /\ AwaitsChild
    /\ \E status \in {0, 1} :
         process' = [process EXCEPT !.state = "exited", !.status = status]
    /\ UNCHANGED <<runnerVars, serialVars, mainVars, stdout, returncode, success>>
    /\ UNCHANGED <<threadVars, budget, logVars, clientVars, consoleVars>>

\* A variant of the two loops that never looks at the flag.
WhileRunning_Forever(flag) == TRUE

\* while self.running: the flag of the thread's own object.
WhileRunning(flag) == flag

\* ------------------------------------------------------ _monitor_serial

\* A variant of the outer handler that ends the thread without an entry.
ConnectionFailed_Silent ==
    /\ UNCHANGED <<log_queue, put_hist>>
    /\ faults' = [faults EXCEPT !.serial_open = @ + 1]
    /\ monitor_pc' = "done"

\* except Exception as e (the outer handler): the entry, and the thread ends.
ConnectionFailed ==
    /\ Put("ESP8266", "ERROR", "Serial connection failed", 0)
    /\ faults' = [faults EXCEPT !.serial_open = @ + 1]
    /\ monitor_pc' = "done"

\* serial.Serial(port, baud_rate, timeout=1)
MonitorOpen ==
    /\ monitor_pc = "open"
    /\ \E opened \in BOOLEAN :
         IF opened
         THEN /\ serial_conn' = "open"
              /\ monitor_pc' = "while"
              /\ UNCHANGED <<log_queue, put_hist, faults>>
         ELSE /\ ConnectionFailed
              /\ UNCHANGED serial_conn
    /\ UNCHANGED <<running, log_file, serial_running, mainVars, childVars>>
    /\ UNCHANGED <<consumer_pc, log_entry, budget>>
    /\ UNCHANGED <<displayed, written, file_ops, marks, clientVars, consoleVars>>

\* while self.running
MonitorWhile ==
    /\ monitor_pc = "while"
    /\ monitor_pc' = IF WhileRunning(serial_running) THEN "in_waiting" ELSE "done"
    /\ UNCHANGED <<runnerVars, serialVars, mainVars, childVars>>
    /\ UNCHANGED <<consumer_pc, log_entry, budget, logVars, clientVars, consoleVars>>

\* One turn of the loop: in_waiting (which raises on a port that stop() has
\* closed), the read, an entry per line, the sleep.
MonitorPoll ==
    /\ monitor_pc = "in_waiting"
    /\ IF serial_conn = "closed"
       THEN /\ ConnectionFailed
            /\ UNCHANGED budget
       ELSE \E event \in {"nothing", "line", "read error"} :
              /\ monitor_pc' = "while"
              /\ IF event = "nothing"
                 THEN UNCHANGED <<log_queue, put_hist, faults, budget>>
                 ELSE /\ budget.serial > 0
                      /\ budget' = [budget EXCEPT !.serial = @ - 1]
                      /\ IF event = "line"
                         THEN /\ Put("ESP8266", "INFO", "line", 0)
                              /\ UNCHANGED faults
                         ELSE /\ Put("ESP8266", "ERROR", "Serial read error", 0)
                              /\ faults' = [faults EXCEPT !.serial_read = @ + 1]
    /\ UNCHANGED <<running, log_file, serialVars, mainVars, childVars>>
    /\ UNCHANGED <<consumer_pc, log_entry>>
    /\ UNCHANGED <<displayed, written, file_ops, marks, clientVars, consoleVars>>

\* --------------------------------------------------- _process_log_queue

\* while self.running
ConsumerWhile ==
    /\ consumer_pc = "while"
    /\ consumer_pc' = IF WhileRunning(running) THEN "get" ELSE "done"
    /\ UNCHANGED <<runnerVars, serialVars, mainVars, childVars>>
    /\ UNCHANGED <<monitor_pc, log_entry, budget, logVars, clientVars, consoleVars>>

\* log_entry = self.log_queue.get(timeout=0.1) and _display_log_entry, or
\* queue.Empty and continue.
ConsumerGet ==
    /\ consumer_pc = "get"
    /\ IF log_queue = <<>>
       THEN /\ consumer_pc' = "while"
            /\ UNCHANGED <<log_queue, log_entry, displayed>>
       ELSE /\ log_entry' = QueueGet(log_queue).entry
            /\ log_queue' = QueueGet(log_queue).rest
            /\ displayed' = Append(displayed, QueueGet(log_queue).entry)
            /\ consumer_pc' = "write"
    /\ UNCHANGED <<running, log_file, serialVars, mainVars, childVars>>
    /\ UNCHANGED <<monitor_pc, budget, put_hist, written, file_ops, marks, faults>>
    /\ UNCHANGED <<clientVars, consoleVars>>

\* if self.log_file: self._write_log_entry(log_entry): the write and the
\* flush, or the ValueError of a closed file, which the loop swallows.
ConsumerWrite ==
    /\ consumer_pc = "write"
    /\ IF log_file = "open"
       THEN /\ written' = Append(written, log_entry)
            /\ file_ops' = file_ops \cup {<<"consumer", "write">>, <<"consumer", "flush">>}
       ELSE UNCHANGED <<written, file_ops>>
    /\ consumer_pc' = "while"
    /\ UNCHANGED <<runnerVars, serialVars, mainVars, childVars>>
    /\ UNCHANGED <<monitor_pc, log_entry, budget, put_hist, displayed, marks, faults>>
    /\ UNCHANGED <<clientVars, consoleVars>>

\* ------------------------------------------------------------------ main

\* main enters the try block.
MainTry ==
    /\ stage = "created"
    /\ stage' = "try"
    /\ UNCHANGED <<runnerVars, serialVars, main_pc, exc, interrupted, childVars>>
    /\ UNCHANGED <<threadVars, budget, logVars, clientVars, consoleVars>>

\* runner.start_logging(log_file_path): main always passes a path.  When
\* open raises, except Exception takes it and the finally block is next.
MainStartLogging ==
    /\ stage = "try"
    /\ \E opens \in BOOLEAN :
         /\ StartLogging("file", opens)
         /\ stage' = IF opens THEN "body" ELSE "finally"

\* start_logging has returned.
InBody == stage = "body" /\ exc = [call |-> "start_logging", raised |-> "None"]

\* --test-only: runner.serial_monitor.stop()
MainTestOnly ==
    /\ InBody /\ main_pc = "idle"
    /\ serial_running
    /\ budget.runs = MaxRuns
    /\ SerialStop
    /\ UNCHANGED <<runnerVars, mainVars, childVars, threadVars>>
    /\ UNCHANGED <<budget, logVars, clientVars, consoleVars>>

\* runner.run_test_suite(test_config): the test script is run.
MainRunTests ==
    /\ InBody
    /\ RunTestScript
    /\ UNCHANGED stage

\* The body of the try block is done: the tests have been run (no test, in
\* monitor-only mode, which sleeps until it is interrupted).
MainBodyDone ==
    /\ stage = "body" /\ main_pc = "idle"
    /\ exc.call = "run_test_script"
    /\ stage' = "finally"
    /\ UNCHANGED <<runnerVars, serialVars, main_pc, exc, interrupted, childVars>>
    /\ UNCHANGED <<threadVars, budget, logVars, clientVars, consoleVars>>

\* finally: runner.stop_logging()
MainFinally ==
    /\ stage = "finally"
    /\ exc.call # "stop_logging"
    /\ StopLogging
    /\ UNCHANGED stage

\* main returns after the finally block, and the process ends.
MainExit ==
    /\ stage = "finally" /\ main_pc = "idle"
    /\ exc.call = "stop_logging"
    /\ stage' = "exited"
    /\ UNCHANGED <<runnerVars, serialVars, main_pc, exc, interrupted, childVars>>
    /\ UNCHANGED <<threadVars, budget, logVars, clientVars, consoleVars>>

\* SIGINT: signal_handler runs in the main thread, wherever that is, and
\* sys.exit(0) raises SystemExit there.  No except clause of main takes it;
\* inside the try block the finally block is next, anywhere else (before
\* the try block, inside the finally block) the exception leaves main.
Interrupt ==
    /\ stage \in {"created", "try", "body", "finally"}
    /\ ~interrupted
    /\ interrupted' = TRUE
    /\ main_pc' = "idle"
    /\ exc' = [call |-> "signal_handler", raised |-> "SystemExit"]
    /\ stage' = IF stage \in {"try", "body"} THEN "finally" ELSE "exited"
    /\ UNCHANGED <<runnerVars, serialVars, childVars, threadVars>>
    /\ UNCHANGED <<budget, logVars, clientVars, consoleVars>>

\* '\n' in data
HasNewline(data) == \E i \in 1..Len(data) : data[i] = NL

\* data.split('\n')[0]
FirstLine(data) ==
    IF HasNewline(data)
    THEN Take(data, (CHOOSE i \in 1..Len(data) :
                        data[i] = NL /\ \A j \in 1..(i - 1) : data[j] # NL) - 1)
    ELSE data

\* ---------------------------------------------- the console, byte by byte

\* What the device writes to its console: a letter, a blank, '\n'.
ConsoleBytes == {120, 32, NL}

\* The device writes one byte; the open port receives it.
DeviceWrite ==
    /\ serial_conn = "open"
    /\ Len(console) < MaxConsole
    /\ \E b \in ConsoleBytes :
         /\ console' = Append(console, b)
         /\ in_waiting' = Append(in_waiting, b)
    /\ UNCHANGED <<runnerVars, serialVars, mainVars, childVars, threadVars>>
    /\ UNCHANGED <<budget, logVars, clientVars>>

\* data.decode('utf-8', errors='ignore'), of bytes each of which is an ASCII
\* character or no part of any character: the latter are left out.
decode_ignore(data) == SelectSeq(data, LAMBDA b : b < 128)

\* text.replace('\r\n', '\n').replace('\r', '\n').split('\n'), of a text
\* without '\r'.
RECURSIVE split(_)
split(text) ==
    IF ~HasNewline(text) THEN <<text>>
    ELSE <<FirstLine(text)>> \o split(Drop(text, Len(FirstLine(text)) + 1))

\* str.strip()
Whitespace == {9, 10, 11, 12, 13, 32}
RECURSIVE strip(_)
strip(line) ==
    IF line = <<>> THEN <<>>
    ELSE IF line[1] \in Whitespace THEN strip(Drop(line, 1))
    ELSE IF line[Len(line)] \in Whitespace THEN strip(Take(line, Len(line) - 1))
    ELSE line

\* _process_serial_line: 'E (' in line, and so on for W, D and V.
Marked(line, letter) ==
    \E i \in 1..(Len(line) - 2) :
        line[i] = letter /\ line[i + 1] = 32 /\ line[i + 2] = 40

SerialLevel(line) ==
    IF Marked(line, 69) THEN "ERROR"
    ELSE IF Marked(line, 87) THEN "WARNING"
    ELSE IF Marked(line, 68) THEN "DEBUG"
    ELSE IF Marked(line, 86) THEN "VERBOSE"
    ELSE "INFO"

\* for line in ...: if line.strip(): self._process_serial_line(line.strip()):
\* one entry per line that is not blank, with the stripped line as raw_data
\* (kept here in the message).
ProcessLines(lines) ==
    LET kept == SelectSeq(lines, LAMBDA l : strip(l) # <<>>)
        entries == [i \in 1..Len(kept) |->
                      LogEntry(Len(put_hist) + i, "ESP8266",
                               SerialLevel(strip(kept[i])), "console", strip(kept[i]))]
    IN /\ log_queue' = log_queue \o entries
       /\ put_hist' = put_hist \o entries

\* One turn of the loop of _monitor_serial, byte for byte: in_waiting (which
\* raises on a port that stop() has closed), read(in_waiting), the decoding,
\* and the entries for the lines of what this read returned.
MonitorRead ==
    /\ monitor_pc = "in_waiting"
    /\ IF serial_conn = "closed"
       THEN /\ ConnectionFailed
            /\ UNCHANGED in_waiting
       ELSE /\ monitor_pc' = "while"
            /\ in_waiting' = <<>>
            /\ IF strip(decode_ignore(in_waiting)) = <<>>
               THEN UNCHANGED <<log_queue, put_hist>>
               ELSE ProcessLines(split(decode_ignore(in_waiting)))
            /\ UNCHANGED faults
    /\ UNCHANGED <<running, log_file, serialVars, mainVars, childVars>>
    /\ UNCHANGED <<consumer_pc, log_entry, budget, console>>
    /\ UNCHANGED <<displayed, written, file_ops, marks, clientVars>>

\* ------------------------------------------------- MCPClient.send_request

\* MCPClient.send_request leaves its receive loop with response_line: None
\* for the empty line and for a line json.loads turns down, else the value.
McpFinish(response_line, w) ==
    /\ pc' = "returned"
    /\ recv_ret' = response_line
    /\ why' = w
    /\ IF response_line = <<>>
       THEN result' = RetValue(None) /\ UNCHANGED parsed
       ELSE /\ parsed' = response_line
            /\ result' = IF json_loads(response_line) = JSONDecodeError
                         THEN RetValue(None)
                         ELSE RetValue(json_loads(response_line))

\* MCPClient.send_request up to its first recv: None at once without a
\* socket; else the identifier and the request line, and None when send
\* raises.
mcp_send_request ==
    /\ cls = Mcp /\ pc = "idle"
    /\ IF socket = "None"
       THEN ReturnAtOnce("send_request", RetValue(None))
       ELSE /\ request_id < MaxId
            /\ request_id' = request_id + 1
            /\ rid' = request_id + 1
            /\ op' = "send_request"
            /\ timeout' = 0 /\ elapsed' = 0
            /\ NewCall
            /\ length_data' = <<>> /\ message_length' = 0 /\ message_data' = <<>>
            /\ recv_ret' = <<>>
            /\ \E ok \in send_framed_message :
                 IF ok
                 THEN /\ last_sent' = Request("send_request", request_id + 1)
                      /\ n_sent' = n_sent + 1
                      /\ result' = Running
                      /\ pc' = "recv"
                      /\ why' = "running"
                      /\ burst' = PeerBurst
                 ELSE /\ result' = RetValue(None)
                      /\ pc' = "returned"
                      /\ why' = "not sent"
                      /\ UNCHANGED <<sentVars, burst>>
            /\ UNCHANGED <<cls, socket, initialized, session_state>>
            /\ UNCHANGED <<progress_notifications, arrived, pending, peer_closed>>
            /\ UNCHANGED <<thrVars, aggVars>>

\* chunk = self.socket.recv(4096).decode('utf-8'), with bytes to read: the
\* chunk is added to response_data; with a newline in response_data the
\* first line is parsed and returned.  A chunk that cannot be decoded ends
\* the call with None (except Exception).
McpRecv ==
    /\ cls = Mcp /\ pc = "recv" /\ socket = "connected" /\ arrived # <<>>
    /\ arrived' = <<>>
    /\ taken' = taken \o arrived
    /\ LET chunk == utf8_decode(arrived)
           response_data == message_data \o chunk
       IN IF chunk = UnicodeDecodeError
          THEN /\ pc' = "returned"
               /\ why' = "decode error"
               /\ result' = RetValue(None)
               /\ UNCHANGED <<message_data, recv_ret, parsed>>
          ELSE /\ message_data' = response_data
               /\ IF HasNewline(response_data)
                  THEN McpFinish(FirstLine(response_data), "return")
                  ELSE UNCHANGED <<pc, recv_ret, why, result, parsed>>
    /\ UNCHANGED <<objVars, op, rid, timeout, elapsed, length_data, message_length>>
    /\ UNCHANGED <<pending, peer_closed, burst, sentVars, thrVars, aggVars>>
    /\ UNCHANGED <<shape, answer, clean, stalled, short>>

\* recv raises socket.timeout (nothing came for 10 s), or returns b'' (the
\* peer closed and everything was read): the loop is left with no line.
McpNoLine ==
    /\ cls = Mcp /\ pc = "recv" /\ socket = "connected" /\ arrived = <<>>
    /\ McpFinish(<<>>, IF peer_closed /\ pending = <<>> THEN "closed" ELSE "timeout")
    /\ UNCHANGED <<objVars, op, rid, timeout, elapsed>>
    /\ UNCHANGED <<length_data, message_length, message_data>>
    /\ UNCHANGED <<wireVars, sentVars, thrVars, aggVars>>
    /\ UNCHANGED <<shape, answer, clean, stalled, taken, short>>

\* What a peer of MCPClient writes in answer to a request: a response (in
\* ASCII, or with a character of two bytes), a number, the empty text, a
\* text that is not JSON, a text that is not UTF-8; each with its newline
\* and nothing, or the start of a second line, after it, or with no newline.
McpTexts ==
    { utf8_encode(json_dumps(<<B_JSONRPC, B_ID0 + 1, B_RESULT>>)),
      utf8_encode(json_dumps(<<B_JSONRPC, B_ID0 + 1, E_ACUTE>>)),
      <<B_ID0 + 1>>, <<>>, <<LBRACE>>, <<B_BAD>> }
McpStreams ==
    {t \o <<NL>> \o r : t \in McpTexts, r \in {<<>>, <<LBRACE>>, utf8_encode(<<LBRACE, E_ACUTE>>)}}
        \cup (McpTexts \ {<<>>})

McpPeerSend == \E b \in McpStreams : PeerWrite(b, b)

\* ---------------------------------------------------------- specification

Next ==
    \/ connect
    \/ disconnect
    \/ initialize
    \/ call_tool
    \/ send_request
    \/ RecvHeader
    \/ RecvPayload
    \/ RecvTimeout
    \/ RecvClosed
    \/ MgmtResume
    \/ ToolResume
    \/ Forget
    \/ PeerSend
    \/ ArriveBlocked
    \/ PeerClose

Spec == Init /\ [][Next]_vars

\* The framing runs, of one call each: _receive_framed_message called
\* directly, as the tests do, or by send_request; the peer writes any header
\* and any payload, and the bytes reach the receive buffer in chunks of
\* every size.
FrameNext ==
    \/ connect
    \/ receive_framed_message
    \/ ReceiveResume
    \/ send_request
    \/ RecvHeader
    \/ RecvPayload
    \/ RecvTimeout
    \/ RecvClosed
    \/ MgmtResume
    \/ ToolResume
    \/ PeerSendRaw
    \/ Arrive
    \/ PeerClose

FrameSpec == Init /\ [][FrameNext]_vars


\* The peer answers tools/list with the list of its tools.
PeerSendTools ==
    /\ op = "list_tools"
    /\ PeerWrite(Frame(Response(rid, B_TOOLS)), Response(rid, B_TOOLS))

\* The bytes under way reach the client's receive buffer all at once.
ArriveWhole == pending # <<>> /\ Deliver(Len(pending))

\* The runs of a test driver: connect, initialize, then list_tools,
\* call_tool and ping in any order and at any time, also before initialize
\* and after disconnect; the peer keeps to the protocol.
SessionNext ==
    \/ connect
    \/ disconnect
    \/ initialize
    \/ list_tools
    \/ call_tool
    \/ ping
    \/ RecvHeader
    \/ RecvPayload
    \/ RecvTimeout
    \/ MgmtResume
    \/ ToolResume
    \/ Forget
    \/ PeerSend
    \/ PeerSendTools
    \/ ArriveWhole

SessionSpec == Init /\ [][SessionNext]_vars

\* The runs of MCPClient.send_request: whatever the peer writes reaches the
\* client in chunks of every size.
McpInit == InitObject(Mcp) /\ InitRest

McpNext ==
    \/ connect
    \/ mcp_send_request
    \/ McpRecv
    \/ McpNoLine
    \/ Forget
    \/ McpPeerSend
    \/ Arrive
    \/ PeerClose

McpSpec == McpInit /\ [][McpNext]_vars

\* The identifier runs: threads share one client and call _get_next_id,
\* while the client is connected and disconnected.
IdNext ==
    \/ connect
    \/ disconnect
    \/ \E t \in Threads : Acquire(t)
    \/ \E t \in Threads : Load(t)
    \/ \E t \in Threads : Store(t)
    \/ \E t \in Threads : Return(t)

IdSpec == Init /\ [][IdNext]_vars

\* The runs of SessionToolClient.send_request against a peer that keeps to
\* the protocol.  The calling thread keeps running, and a recv that gets
\* nothing ends with socket.timeout (or with the end of the stream).
LoopInit == InitObject(Tool) /\ InitRest

LoopNext ==
    \/ connect
    \/ send_request
    \/ RecvHeader
    \/ RecvPayload
    \/ RecvTimeout
    \/ RecvClosed
    \/ ToolResume
    \/ Forget
    \/ PeerSend
    \/ ArriveBlocked
    \/ PeerClose

LoopFairness ==
    /\ WF_vars(RecvHeader)
    /\ WF_vars(RecvPayload)
    /\ WF_vars(RecvTimeout)
    /\ WF_vars(RecvClosed)
    /\ WF_vars(ToolResume)

LoopSpec == LoopInit /\ [][LoopNext]_vars /\ LoopFairness

\* The runs of one send_request against a faulty peer: the send fails, the
\* peer closes, nothing arrives, or one of the faulty frames arrives.
FaultNext ==
    \/ connect
    \/ send_request
    \/ RecvHeader
    \/ RecvPayload
    \/ RecvTimeout
    \/ RecvClosed
    \/ MgmtResume
    \/ ToolResume
    \/ PeerSendFault
    \/ ArriveBlocked
    \/ PeerClose

FaultSpec == Init /\ [][FaultNext]_vars

\* The runs of the aggregator under any caller: start_logging once,
\* _log_test_message and stop_logging at any time between calls; the
\* monitor thread with the serial device, and the consumer thread.
RunnerNext ==
    \/ start_logging
    \/ StartMonitor
    \/ StartConsumer
    \/ stop_logging
    \/ StopMonitor
    \/ StopClose
    \/ log_test_message
    \/ MonitorOpen
    \/ MonitorWhile
    \/ MonitorPoll
    \/ ConsumerWhile
    \/ ConsumerGet
    \/ ConsumerWrite

AggregatorInit == InitObject(Tool) /\ InitRest

RunnerSpec == AggregatorInit /\ [][RunnerNext]_vars

\* The same runs with the threads scheduled: a thread that can take a step
\* takes it (the get of the consumer, the open and the read of the monitor
\* have timeouts), and stop_logging, once called, runs to its end.
RunnerFairness ==
    /\ WF_vars(StopMonitor)
    /\ WF_vars(StopClose)
    /\ WF_vars(MonitorOpen)
    /\ WF_vars(MonitorWhile)
    /\ WF_vars(MonitorPoll)
    /\ WF_vars(ConsumerWhile)
    /\ WF_vars(ConsumerGet)
    /\ WF_vars(ConsumerWrite)

RunnerLiveSpec == AggregatorInit /\ [][RunnerNext]_vars /\ RunnerFairness

\* The runs of TestExecutor.run_test_script with its child process, and the
\* messages run_test_suite logs around it.
ExecutorNext ==
    \/ log_test_message
    \/ run_test_script
    \/ Popen
    \/ ReadLine
    \/ ReadEOF
    \/ Wait
    \/ ChildWrite
    \/ ChildClose
    \/ ChildExit

ExecutorSpec == AggregatorInit /\ [][ExecutorNext]_vars

\* The same runs with the main thread scheduled: a step of run_test_script
\* that can be taken is taken.  Nothing makes the child write, close its
\* output or exit.
ExecutorFairness ==
    /\ WF_vars(Popen)
    /\ WF_vars(ReadLine)
    /\ WF_vars(ReadEOF)
    /\ WF_vars(Wait)

ExecutorLiveSpec == AggregatorInit /\ [][ExecutorNext]_vars /\ ExecutorFairness

\* The runs of both producers with the consumer, while logging goes on:
\* the monitor thread with the serial device, run_test_script with its
\* child, and the consumer thread.
ProducerNext ==
    \/ start_logging
    \/ StartMonitor
    \/ StartConsumer
    \/ run_test_script
    \/ Popen
    \/ ReadLine
    \/ ReadEOF
    \/ Wait
    \/ ChildWrite
    \/ ChildClose
    \/ ChildExit
    \/ MonitorOpen
    \/ MonitorWhile
    \/ MonitorPoll
    \/ ConsumerWhile
    \/ ConsumerGet
    \/ ConsumerWrite

ProducerSpec == AggregatorInit /\ [][ProducerNext]_vars

\* The runs of the console: the device writes its lines byte by byte, and
\* the monitor thread polls the port at any time in between.
ConsoleNext ==
    \/ start_logging
    \/ StartMonitor
    \/ StartConsumer
    \/ MonitorOpen
    \/ MonitorWhile
    \/ MonitorRead
    \/ DeviceWrite
    \/ ConsumerWhile
    \/ ConsumerGet
    \/ ConsumerWrite

ConsoleSpec == AggregatorInit /\ [][ConsoleNext]_vars

\* The runs of main once the runner is created: start_logging, the tests,
\* stop_logging in the finally block, with the threads, the serial device
\* and the child, and SIGINT at any point.
MainInit == InitObject(Tool) /\ ClientRest /\ RunnerInit /\ stage = "created"

MainNext ==
    \/ MainTry
    \/ MainStartLogging
    \/ StartMonitor
    \/ StartConsumer
    \/ MainTestOnly
    \/ MainRunTests
    \/ Popen
    \/ ReadLine
    \/ ReadEOF
    \/ Wait
    \/ ChildWrite
    \/ ChildClose
    \/ ChildExit
    \/ MainBodyDone
    \/ MainFinally
    \/ StopMonitor
    \/ StopClose
    \/ MainExit
    \/ Interrupt
    \/ MonitorOpen
    \/ MonitorWhile
    \/ MonitorPoll
    \/ ConsumerWhile
    \/ ConsumerGet
    \/ ConsumerWrite

MainSpec == MainInit /\ [][MainNext]_vars

\* ------------------------------------------------------------------ claims

\* A response to the request in hand: a JSON-RPC object with its id.
IsResponseTo(text, id) ==
    /\ text # NoneText
    /\ json_loads(text).type = "object"
    /\ MatchesId(json_loads(text), id)

\* C1: SessionToolClient.send_request with identifier X returns exactly the
\* response with id X whenever the peer delivered, within the timeout,
\* notifications without id followed by that response (and nothing else, on
\* a stream that was empty when the request began).
C1_ReturnsMatchingResponse ==
    (/\ cls = Tool /\ pc = "returned" /\ op = "send_request"
     /\ clean /\ shape = "answered"
     /\ pending = <<>> /\ arrived = <<>> /\ ~peer_closed)
    => result = RetValue(json_loads(answer))

\* C1, where it goes wrong: the response was delivered in time and
\* send_request returned None.
C1_ResponseLost ==
    /\ cls = Tool /\ pc = "returned" /\ op = "send_request"
    /\ clean /\ shape = "answered" /\ stalled
    /\ pending = <<>> /\ arrived = <<>> /\ ~peer_closed
    /\ result = RetValue(None)

\* C2: SessionMCPClient.send_request never returns a notification-shaped
\* frame (a method, no id) as the response to its request.
C2_NoNotificationAsResponse ==
    (cls = Mgmt /\ pc = "returned" /\ op = "send_request" /\ result.type = "object")
    => ~(Has(result, "method") /\ ~Has(result, "id"))

\* The length that the header read in this receive call declares.
Declared == from_bytes(Take(taken, HEADER_LEN))

\* C3: _receive_framed_message, for every declared size and every split of
\* the bytes across recv calls, reads the 4 header bytes and then no more
\* than the declared number of payload bytes; when it returns a text, it
\* has read exactly the header and the declared number of bytes and the
\* text is those bytes decoded; and the text send_request parsed last is
\* such a whole payload.
C3_ExactFrame ==
    /\ length_data = Take(taken, Min(HEADER_LEN, Len(taken)))
    /\ Len(taken) > HEADER_LEN
       => (/\ Len(taken) <= HEADER_LEN + Declared
           /\ message_data = Drop(taken, HEADER_LEN))
    /\ (pc \in {"received", "returned"} /\ why = "return")
       => (/\ Len(taken) >= HEADER_LEN
           /\ Len(taken) = HEADER_LEN + Declared
           /\ recv_ret = utf8_decode(Drop(taken, HEADER_LEN)))
    /\ (pc = "returned" /\ parsed # NoneText)
       => (/\ why = "return"
           /\ Len(parsed) = Declared
           /\ parsed = utf8_decode(Drop(taken, HEADER_LEN)))

\* C3, its case: a payload of the longest size was returned after recv
\* had handed out fewer bytes than asked for.
C3_ShortReads ==
    /\ pc = "received" /\ why = "return"
    /\ Len(recv_ret) = MaxLen
    /\ short

\* C4: _receive_framed_message returns None on a declared length above
\* 1024 * 1024 with no payload byte read; it turns down no other length,
\* and on the cap itself it goes on to read the payload.
C4_OversizeFailsClosed ==
    /\ (Len(taken) >= HEADER_LEN /\ Declared > MAX_MESSAGE)
       => (/\ Len(taken) = HEADER_LEN
           /\ message_data = <<>>
           /\ why = "too large"
           /\ recv_ret = NoneText)
    /\ why = "too large"
       => (Len(taken) = HEADER_LEN /\ Declared > MAX_MESSAGE)
    /\ (Len(taken) = HEADER_LEN /\ Declared = MAX_MESSAGE /\ why = "running")
       => pc = "payload"

\* C4, its case: a header declaring one byte more than the cap was turned
\* down with payload bytes of that frame still unread.
C4_Rejected ==
    /\ pc = "received" /\ why = "too large"
    /\ Declared = MAX_MESSAGE + 1
    /\ Len(arrived) + Len(pending) > 0

\* C5: after SessionMCPClient.disconnect (called once or again) the client
\* holds no socket, initialized is False and session_state is UNINITIALIZED.
C5_DisconnectResets ==
    (cls = Mgmt /\ pc = "idle" /\ op = "disconnect")
    => (socket = "None" /\ ~initialized /\ session_state = UNINITIALIZED)

\* C5, where it goes wrong: disconnect returned and the state is still ACTIVE.
C5_StillActive ==
    /\ cls = Mgmt /\ pc = "idle" /\ op = "disconnect"
    /\ socket = "None" /\ ~initialized /\ session_state = ACTIVE

\* The initialize response that _receive_framed_message has just returned
\* has a result and no error.
GoodInitializeResponse ==
    /\ op = "initialize" /\ pc = "received"
    /\ IsResponseTo(recv_ret, rid)
    /\ Has(json_loads(recv_ret), "result")
    /\ ~Has(json_loads(recv_ret), "error")

\* C6: in SessionMCPClient, session_state becomes ACTIVE and initialized
\* becomes True only in the step of initialize that follows a response with
\* a result and no error and in which notifications/initialized is sent; if
\* that send fails, initialize returns False and the state is not ACTIVE.
C6_ActiveOnlyAfterHandshake ==
    [][cls = Mgmt =>
        /\ ((session_state' = ACTIVE /\ session_state # ACTIVE)
               \/ (initialized' /\ ~initialized))
           => (/\ GoodInitializeResponse
               /\ last_sent' = InitializedNotification
               /\ n_sent' = n_sent + 1
               /\ session_state' = ACTIVE /\ initialized'
               /\ result' = RetBool(TRUE))
        /\ (GoodInitializeResponse /\ pc' = "returned" /\ n_sent' = n_sent)
           => (/\ result' = RetBool(FALSE)
               /\ session_state' # ACTIVE
               /\ ~initialized')
      ]_vars

\* C6, its case: initialize returned True after the handshake.
C6_HandshakeDone ==
    /\ cls = Mgmt /\ pc = "returned" /\ op = "initialize"
    /\ result = RetBool(TRUE)
    /\ session_state = ACTIVE /\ initialized
    /\ last_sent = InitializedNotification

\* C7: when SessionMCPClient.initialize fails it returns False and
\* session_state is ERROR_STATE.
C7_FailureSetsErrorState ==
    (cls = Mgmt /\ pc = "returned" /\ op = "initialize" /\ result = RetBool(FALSE))
    => session_state = ERROR_STATE

\* C7, where it goes wrong: initialize returned False on an error response
\* and session_state is what it was.
C7_FailedAndUninitialized ==
    /\ cls = Mgmt /\ pc = "returned" /\ op = "initialize"
    /\ result = RetBool(FALSE)
    /\ IsResponseTo(parsed, rid) /\ Has(json_loads(parsed), "error")
    /\ session_state = UNINITIALIZED

\* The response that call_tool's request got is an error response: the
\* request's id, an error object, no result.
ErrorResponse ==
    /\ IsResponseTo(parsed, rid)
    /\ Has(json_loads(parsed), "jsonrpc")
    /\ Has(json_loads(parsed), "error")
    /\ ~Has(json_loads(parsed), "result")

\* C8: call_tool of both clients, given an error response to its request,
\* returns a value that holds that error object unchanged (code and
\* message), which is not the None of a transport failure or timeout.
C8_ErrorPassthrough ==
    (pc = "returned" /\ op = "call_tool" /\ ErrorResponse)
    => (/\ result.type = "object"
        /\ Has(result, "error")
        /\ Get(result, "error") = Get(json_loads(parsed), "error")
        /\ result.type # RetValue(None).type)

\* C8, its case: call_tool returned an error response of the peer.
C8_ErrorReturned ==
    /\ pc = "returned" /\ op = "call_tool" /\ ErrorResponse
    /\ Get(result, "error").code = -32601

\* C9: the values _get_next_id returns, in the order of the returns of all
\* threads and across connect and disconnect, are strictly increasing (so
\* no two are equal), and the counter is never behind the last of them.
C9_UniqueIncreasing ==
    /\ \A i, j \in 1..Len(returned) : i < j => returned[i] < returned[j]
    /\ \A i \in 1..Len(returned) : returned[i] <= request_id

\* C9, its case: every thread has made all its calls, and the client was
\* disconnected on the way.
C9_AllCallsDone ==
    /\ \A t \in Threads : calls[t] = CallsPerThread
    /\ Len(returned) = NumThreads * CallsPerThread
    /\ op = "disconnect"

\* C10: SessionToolClient.send_request, once it waits for the response,
\* always returns; and when the last frame it parsed was not a response to
\* its request, what it returns is None.
C10_Terminates ==
    /\ (cls = Tool /\ op = "send_request" /\ InCall) ~> (pc = "returned")
    /\ []((cls = Tool /\ op = "send_request" /\ pc = "returned"
              /\ ~IsResponseTo(parsed, rid))
          => result = RetValue(None))

\* C10, its case: the peer sent notifications only, and send_request
\* returned None when the timeout had passed.
C10_TimedOut ==
    /\ cls = Tool /\ op = "send_request" /\ pc = "returned"
    /\ shape = "notifications"
    /\ progress_notifications # <<>>
    /\ elapsed >= timeout
    /\ result = RetValue(None)

\* C11: send_request never raises, and whatever goes wrong (the send fails,
\* the peer closes, nothing arrives in time, the header is over the cap, the
\* text is not UTF-8 or not JSON, the JSON is not an object or lacks
\* "jsonrpc" or "id") it returns None: what it returns is None or a JSON-RPC
\* object carrying "jsonrpc" and the id of the request.
C11_FaultReturnsNone ==
    (pc = "returned" /\ op = "send_request")
        => \/ result = RetValue(None)
           \/ /\ result.type = "object"
              /\ Has(result, "jsonrpc") /\ Get(result, "jsonrpc") = "2.0"
              /\ MatchesId(result, rid)

\* send_request has raised on a frame whose text is a JSON number.
C11_RaisedOnNumber ==
    /\ pc = "returned" /\ op = "send_request"
    /\ result = RetValue(Raised)
    /\ json_loads(parsed).type = "number"

\* The number of times the entry e occurs in the sequence s.
Count(s, e) == Cardinality({i \in DOMAIN s : s[i] = e})

\* The entries put after start_logging was called and before stop_logging
\* was (first) called: their places in put_hist.
Window ==
    IF marks.start = -1 THEN {}
    ELSE {i \in DOMAIN put_hist :
            /\ i > marks.start
            /\ marks.stop = -1 \/ i <= marks.stop}

\* C12: every entry put on the queue after start_logging and before
\* stop_logging is consumed exactly once: never displayed or written twice,
\* and, once the consumer thread has ended, displayed once and (with a log
\* file) written once.
C12_ConsumedExactlyOnce ==
    \A i \in Window :
        /\ Count(displayed, put_hist[i]) <= 1
        /\ Count(written, put_hist[i]) <= 1
        /\ consumer_pc = "done"
             => /\ Count(displayed, put_hist[i]) = 1
                /\ Truthy(log_file) => Count(written, put_hist[i]) = 1

\* The consumer thread has ended and an entry put while logging was on is
\* still in the queue.
C12_EntryLeftBehind ==
    /\ consumer_pc = "done"
    /\ \E i \in Window : Count(log_queue, put_hist[i]) = 1

\* The entries of one source, in the order of the sequence s.
From(source, s) == SelectSeq(s, LAMBDA e : e.source = source)

\* The sequence s is the beginning of the sequence t.
IsPrefix(s, t) == Len(s) <= Len(t) /\ s = SubSeq(t, 1, Len(s))

\* C13: the consumer handles the entries in the order in which they were
\* put: what it has displayed is the beginning of what was put, so the
\* entries of each producer are displayed in that producer's order, and the
\* file holds entries in put order.
C13_EnqueueOrder ==
    /\ IsPrefix(displayed, put_hist)
    /\ IsPrefix(From("ESP8266", displayed), From("ESP8266", put_hist))
    /\ IsPrefix(From("CLIENT", displayed), From("CLIENT", put_hist))
    /\ \A i, j \in DOMAIN written :
         i < j => written[i].timestamp < written[j].timestamp

\* The consumer has displayed three entries or more, of both producers, and
\* written two or more of them to the file.
C13_BothProducersDisplayed ==
    /\ Len(displayed) >= 3
    /\ From("ESP8266", displayed) # <<>>
    /\ From("CLIENT", displayed) # <<>>
    /\ Len(written) >= 2

\* C14: stop_logging is safe in every state, before start_logging, after a
\* start_logging that failed, and after an earlier stop_logging: whenever
\* it has returned, it raised nothing, running is False and the log file is
\* not open.
C14_StopIsSafe ==
    (main_pc = "idle" /\ exc.call = "stop_logging")
        => /\ exc.raised = "None"
           /\ running = FALSE
           /\ log_file # "open"

\* stop_logging has returned for the second time, on a file it had closed.
C14_StoppedTwice ==
    /\ main_pc = "idle" /\ exc.call = "stop_logging"
    /\ budget.stops = MaxStops - 2
    /\ log_file = "closed"

\* Both threads have been started.
ThreadsStarted == monitor_pc # "none" /\ consumer_pc # "none"

\* Both threads have ended.
ThreadsEnded == monitor_pc = "done" /\ consumer_pc = "done"

\* C15: once stop_logging has been called on a runner whose threads were
\* started, the monitor thread and the consumer thread both end.
C15_ThreadsTerminate ==
    (main_pc = "serial_monitor.stop" /\ ThreadsStarted) ~> ThreadsEnded

\* stop_logging has returned and both threads have ended, the monitor
\* thread after it had opened the port.
C15_BothEnded ==
    /\ main_pc = "idle" /\ exc.call = "stop_logging"
    /\ ThreadsEnded
    /\ serial_conn = "closed"

\* C20: the log file handle is used by the consumer thread alone: every
\* write, flush and close of it is done by that thread.
C20_ConsumerOwnsFile ==
    \A o \in file_ops : o[2] \in {"write", "flush", "close"} => o[1] = "consumer"

\* The main thread has written to the file and closed it, and the consumer
\* thread has written to it in between.
C20_TwoThreadsUsedFile ==
    {<<"main", "write">>, <<"consumer", "write">>, <<"main", "close">>} \subseteq file_ops

\* The entries put with the text t.
Entries(t) == SelectSeq(put_hist, LAMBDA e : e.message[1] = t)

\* The state of everything but the producer p ("monitor": the thread of
\* _monitor_serial; "executor": the main thread in run_test_script): the
\* runner's flag and file, the consumer thread, the other producer.
Others(p) ==
    IF p = "monitor"
    THEN <<running, log_file, consumer_pc, main_pc, exc, process>>
    ELSE <<running, log_file, consumer_pc, monitor_pc, serial_running, serial_conn>>

\* The fault of a producer that has just happened, if any.
Fault(p, kind) == faults'[kind] = faults[kind] + 1

\* C16: a fault of a producer (the serial port cannot be opened, a serial
\* read fails, the subprocess cannot be launched) puts exactly one entry of
\* level ERROR describing it on the queue; no exception reaches the caller;
\* the consumer thread and the other producer are left as they were and
\* the consumer thread is not ended by it.
C16_FaultBecomesOneEntry ==
    /\ [](/\ Len(Entries("Serial connection failed")) = faults.serial_open
          /\ Len(Entries("Serial read error")) = faults.serial_read
          /\ Len(Entries("Test execution error")) = faults.execution
          /\ \A i \in DOMAIN put_hist :
               put_hist[i].message[1] \in {"Serial connection failed", "Serial read error",
                                           "Test execution error"}
                 => put_hist[i].level = "ERROR"
          /\ exc.raised = "None" \/ exc.call # "run_test_script"
          /\ consumer_pc = "done" => ~running)
    /\ [][/\ (Fault("monitor", "serial_open") \/ Fault("monitor", "serial_read"))
               => /\ Len(put_hist') = Len(put_hist) + 1
                  /\ Others("monitor")' = Others("monitor")
          /\ Fault("executor", "execution")
               => /\ Len(put_hist') = Len(put_hist) + 1
                  /\ Others("executor")' = Others("executor")
                  /\ success' = FALSE /\ main_pc' = "idle"]_vars

\* A serial read and the launch of the subprocess have both failed in one
\* run, the consumer thread has displayed their entries, and the monitor
\* thread and the consumer thread go on.
C16_TwoFaultsDisplayed ==
    /\ faults.serial_read > 0 /\ faults.execution > 0
    /\ process.state = "None"
    /\ Len(SelectSeq(displayed, LAMBDA e : e.level = "ERROR")) >= 2
    /\ monitor_pc \in {"while", "in_waiting"}
    /\ consumer_pc \in {"while", "get", "write"}

\* The entries the last call of run_test_script has put, in put order: the
\* entries of TestExecutor from the last 'Starting test' on.
ExecutorEntries ==
    LET all == SelectSeq(put_hist,
                         LAMBDA e : e.source = "CLIENT" /\ e.message[1] # "test message")
        starts == {i \in DOMAIN all : all[i].message[1] = "Starting test"}
        last == CHOOSE i \in starts : \A j \in starts : j <= i
    IN IF starts = {} THEN <<>> ELSE SubSeq(all, last, Len(all))

\* The numbers of the non-blank lines readline has returned, in output order.
ReadLines ==
    SelectSeq([k \in 1..stdout |-> k], LAMBDA k : process.output[k] = "text")

\* C17: a run of run_test_script puts, in order, one TEST entry announcing
\* the test, one INFO entry of the source CLIENT per non-blank line of the
\* child's output in output order, and exactly one final entry: the TEST
\* entry of success, with True returned, if and only if the exit status is
\* 0, and otherwise an ERROR entry, with False returned.
C17_RunEntries ==
    (main_pc = "idle" /\ exc.call = "run_test_script")
        => LET es == ExecutorEntries
               n == Len(es)
           IN /\ n = Len(ReadLines) + 2
              /\ es[1].level = "TEST" /\ es[1].message[1] = "Starting test"
              /\ \A j \in 1..Len(ReadLines) :
                   /\ es[j + 1].level = "INFO"
                   /\ es[j + 1].message = <<"line", ReadLines[j]>>
              /\ IF returncode = 0
                 THEN /\ es[n].level = "TEST"
                      /\ es[n].message[1] = "Test completed successfully"
                      /\ success = TRUE
                 ELSE /\ es[n].level = "ERROR"
                      /\ success = FALSE

\* A run whose child wrote two non-blank lines and exited with status 0 has
\* returned True.
C17_TwoLinesAndSuccess ==
    /\ main_pc = "idle" /\ exc.call = "run_test_script"
    /\ Len(ReadLines) = 2
    /\ returncode = 0 /\ success = TRUE

\* C19: run_test_script does not block without bound: once called, it
\* returns, whatever the child does.
C19_ScriptReturns == (main_pc = "Popen") ~> (main_pc = "idle")

\* The main thread is in readline with every line read while the child runs
\* and keeps its output open.
C19_BlockedInReadline ==
    /\ main_pc = "readline"
    /\ process.state = "running"
    /\ stdout = Len(process.output)

\* C18: a user interrupt at any point of main after the runner is created
\* leads to an orderly stop: when the process ends, stop_logging has run,
\* running is False and the log file is not open.
C18_OrderlyStop ==
    (stage = "exited" /\ interrupted) => (running = FALSE /\ log_file # "open")

\* The process has ended on an interrupt that arrived inside stop_logging,
\* after running was set to False and before the file was closed.
C18_ExitedWithOpenFile ==
    /\ stage = "exited" /\ interrupted
    /\ running = FALSE
    /\ log_file = "open"

\* C28: after connect returned False the client holds no socket (the socket
\* attribute is None), and the socket attribute is not None only while a
\* connection made by a successful connect exists.
C28_NoSocketAfterFailedConnect ==
    /\ (pc = "idle" /\ op = "connect" /\ result = RetBool(FALSE))
       => socket = "None"
    /\ socket \in {"None", "connected"}

\* C28, where it goes wrong: connect returned False and the client holds the
\* socket object that never connected.
C28_UnconnectedSocketHeld ==
    /\ pc = "idle" /\ op = "connect" /\ result = RetBool(FALSE)
    /\ socket = "unconnected"

\* C27: whenever initialized is True the handshake was made on the socket
\* the client holds: no connect leaves initialized True on the socket it
\* has just created, initialized is never True without a connected socket,
\* and an initialize called on a socket on which nothing was sent yet does
\* not return True at once, without sending.
C27_HandshakeOnHeldSocket ==
    [][/\ connect => ~initialized'
       /\ initialized' => socket' = "connected"
       /\ (initialize /\ socket = "connected" /\ n_sent = 0)
          => result' # RetBool(TRUE)]_vars

\* C27, where it goes wrong: on a socket that connect has just opened, and
\* on which the client has sent nothing, initialize returned True at once.
C27_TrueWithoutHandshake ==
    /\ pc = "idle" /\ op = "initialize" /\ result = RetBool(TRUE)
    /\ socket = "connected" /\ n_sent = 0
    /\ initialized

\* The bytes are whole frames of the stream, one after another: each a
\* 4-byte length and that many payload bytes.
RECURSIVE WholeFrames(_)
WholeFrames(bytes) ==
    \/ bytes = <<>>
    \/ /\ Len(bytes) >= HEADER_LEN
       /\ from_bytes(Take(bytes, HEADER_LEN)) <= Len(bytes) - HEADER_LEN
       /\ WholeFrames(Drop(bytes, HEADER_LEN + from_bytes(Take(bytes, HEADER_LEN))))

\* C26: every call of _receive_framed_message starts at a message boundary
\* of the peer's byte stream: at the call's first recv, what the peer has
\* written and the client has not read is a sequence of whole frames, also
\* after an earlier call returned None inside a frame.
C26_StartsAtBoundary ==
    (pc = "header" /\ length_data = <<>> /\ socket = "connected")
        => WholeFrames(arrived \o pending)

\* C26, where it goes wrong: an earlier call gave up inside a frame, and the
\* next call's first recv will hand out the rest of that frame as a length
\* header.
C26_StartsInsideFrame ==
    /\ pc = "header" /\ length_data = <<>> /\ socket = "connected"
    /\ arrived # <<>>
    /\ ~WholeFrames(arrived \o pending)

\* send_request or _receive_framed_message has failed: by a receive
\* timeout, an oversize length header, a text that is not JSON, or a
\* response with another identifier.
Failure ==
    IF why = "timeout" THEN "timeout"
    ELSE IF why = "too large" THEN "oversize"
    ELSE IF why = "return" /\ json_loads(recv_ret) = JSONDecodeError THEN "malformed"
    ELSE IF /\ why = "return" /\ json_loads(recv_ret).type = "object"
            /\ Has(json_loads(recv_ret), "id")
            /\ Get(json_loads(recv_ret), "id") # rid
         THEN "mismatch"
    ELSE "none"

\* C23: a failed read leaves the connection in place: from the first recv
\* of send_request or _receive_framed_message to the return, through every
\* failure, the socket stays the connected one and initialized,
\* session_state and the request counter stay what they were.
C23_FailedReadKeepsConnection ==
    [][(InCall /\ op \in {"send_request", "_receive_framed_message"})
          => UNCHANGED <<socket, initialized, session_state, request_id>>]_vars

\* C23, its case: send_request has returned None after an oversize header,
\* a text that is not JSON or a response with another identifier, and the
\* client holds the connected socket and the counter of that request.
C23_FailedAndConnected ==
    /\ pc = "returned" /\ op = "send_request" /\ result = RetValue(None)
    /\ Failure \in {"oversize", "malformed", "mismatch"}
    /\ socket = "connected" /\ request_id = rid

\* C29: no write to a closed log file: whenever the consumer thread, having
\* taken an entry from the queue, comes to write it to the log file, the
\* file is open (stop_logging has not closed it).
C29_NoWriteAfterClose ==
    [][(ConsumerWrite /\ Truthy(log_file)) => log_file = "open"]_vars

\* C29, where it goes wrong: stop_logging has closed the file and returned,
\* and the entry the consumer had taken before was displayed and is not in
\* the file.
C29_EntryNotWritten ==
    /\ main_pc = "idle" /\ exc.call = "stop_logging"
    /\ log_file = "closed"
    /\ consumer_pc = "while"
    /\ displayed # <<>> /\ log_entry = displayed[Len(displayed)]
    /\ \A i \in 1..Len(written) : written[i] # log_entry

\* C30: once SerialMonitor.stop has returned, the serial port is not open,
\* whatever the monitor thread had done when stop ran and whatever it does
\* afterwards.
C30_ClosedAfterStop ==
    (monitor_pc # "none" /\ ~serial_running) => serial_conn # "open"

\* C30, where it goes wrong: stop ran before the thread had opened the
\* port; the thread then opened it, found running False and ended, and
\* stop_logging has returned with the port open.
C30_OpenAfterStop ==
    /\ main_pc = "idle" /\ exc.call = "stop_logging"
    /\ monitor_pc = "done"
    /\ ~serial_running /\ serial_conn = "open"

\* The notifications/progress frame that _receive_framed_message has just
\* returned, as a list of one; the empty list when it returned anything else.
ProgressReceived ==
    IF ~Falsy(recv_ret) /\ json_loads(recv_ret).type = "object"
          /\ IsProgress(json_loads(recv_ret))
    THEN <<json_loads(recv_ret)>>
    ELSE <<>>

\* SessionToolClient.call_tool has returned (it has not raised).
CallToolReturned ==
    /\ cls = Tool /\ op = "call_tool" /\ pc \in {"idle", "returned"}
    /\ result.type # "raised"

\* C25: SessionToolClient.call_tool returns as its progress events exactly
\* the notifications/progress frames received while its request was
\* outstanding, in arrival order: the list is empty when the request goes
\* out, each frame received is appended to it and nothing else changes it,
\* and the events returned are that list; and whenever call_tool returns,
\* progress_notifications is empty.
C25_EventsOfThisCall ==
    [][cls = Tool =>
        /\ (pc = "idle" /\ op' = "call_tool" /\ pc' = "header")
              => progress_notifications' = <<>>
        /\ (op = "call_tool" /\ InCall /\ (pc = "received" => pc' = "received"))
              => UNCHANGED progress_notifications
        /\ (op = "call_tool" /\ pc = "received" /\ pc' = "header")
              => progress_notifications' = progress_notifications \o ProgressReceived
        /\ (op = "call_tool" /\ pc = "received" /\ CallToolReturned')
              => result'.events = progress_notifications \o ProgressReceived
        /\ CallToolReturned' => progress_notifications' = <<>>]_vars

\* C25, where it goes wrong: call_tool has returned None and no events on a
\* client that is not initialized, and the list still holds the
\* notification received during an earlier send_request.
C25_StaleNotifications ==
    /\ CallToolReturned /\ ~initialized
    /\ result = RetValue(None)
    /\ progress_notifications # <<>>

\* What list_tools, call_tool and ping return when they fail: [] or {},
\* None (with no events), False.
FailureValue(o) ==
    IF o = "list_tools" THEN NoTools
    ELSE IF o = "call_tool" THEN RetValue(None)
    ELSE RetBool(FALSE)

ParseOf(bytes) ==
    IF utf8_decode(bytes) = UnicodeDecodeError \/ bytes = <<>> THEN None
    ELSE IF json_loads(utf8_decode(bytes)) = JSONDecodeError THEN None
    ELSE json_loads(utf8_decode(bytes))

\* The bytes the peer has written for the client to receive after the
\* request was sent: those recv handed out and those still to come.
Stream == taken \o arrived \o pending

\* C22: newline framing in MCPClient.send_request: nothing is parsed before
\* a newline was received; when the peer closes or the socket times out
\* before any newline the call returns None; and otherwise it returns the
\* parse of exactly the bytes before the first newline of what the peer
\* wrote, however they were split over the recv calls.
C22_NewlineFraming ==
    /\ (cls = Mcp /\ parsed # NoneText) => HasNewline(taken)
    /\ (cls = Mcp /\ pc = "returned" /\ op = "send_request" /\ why # "not sent")
       => IF why \in {"timeout", "closed"}
          THEN ~HasNewline(taken) /\ result = RetValue(None)
          ELSE HasNewline(Stream)
                  => result = RetValue(ParseOf(FirstLine(Stream)))

\* C22, where it goes wrong: the peer wrote a whole response line, the
\* transport split it inside a character of two bytes, and send_request
\* returned None on the first piece.
C22_SplitInsideCharacter ==
    /\ cls = Mcp /\ pc = "returned" /\ op = "send_request"
    /\ why = "decode error" /\ result = RetValue(None)
    /\ ~HasNewline(taken)
    /\ HasNewline(Stream)
    /\ ParseOf(FirstLine(Stream)).type = "object"

\* The lines the device has written with their terminator, blank ones left
\* out, each without the blanks at its ends.
ConsoleLines ==
    LET lines == split(decode_ignore(console))
        terminated == Take(lines, Len(lines) - 1)
        kept == SelectSeq(terminated, LAMBDA l : strip(l) # <<>>)
    IN [i \in 1..Len(kept) |-> strip(kept[i])]

\* The lines that the entries of the console reader carry, in put order.
ConsoleEntries ==
    LET es == SelectSeq(put_hist,
                        LAMBDA e : e.source = "ESP8266" /\ e.message[1] = "console")
    IN [i \in 1..Len(es) |-> es[i].message[2]]

\* C21: the console reader produces one LogEntry per console line: once the
\* reader has read all that the device wrote, its entries are, in order, the
\* non-blank terminated lines of the console, one entry for each line and
\* the whole line in it, however the bytes were split over the polls.
C21_OneEntryPerLine ==
    in_waiting = <<>> => ConsoleEntries = ConsoleLines

\* C21, where it goes wrong: the device wrote the one line "xx", a poll in
\* between its two letters read the first alone, and the reader has put two
\* entries with one letter each.
C21_LineInTwoEntries ==
    /\ console = <<120, 120, NL>> /\ in_waiting = <<>>
    /\ ConsoleEntries = << <<120>>, <<120>> >>

=============================================================================
